---- MODULE Spec2Model ----
(***************************************************************************)
(* Model of the regulatory-impact-chain core: the in-memory cache          *)
(* (lib/cache), the dependency-graph builder and the propagation engine    *)
(* (lib/propagation), and the route handlers that mutate edges and         *)
(* entities and invalidate the cache.                                      *)
(*                                                                         *)
(* Strings built by template literals are modelled as sequences of tokens  *)
(* (`${type}:${id}` is <<type, ":", id>>), so that two keys are equal      *)
(* exactly when the concatenations are.  Floating-point impact values are  *)
(* modelled as exact reduced fractions <<numerator, denominator>>.         *)
(***************************************************************************)
EXTENDS Integers, Sequences, FiniteSets, TLC

VARIABLES
  cache,        \* MemoryCache.cache: full key -> entry
  dbEdges,      \* the impactEdge table, rows in creation order (id = position)
  dbEntities,   \* per tenant and entity type, the revision of the entity row
  procs,        \* the route handlers in flight: position and locals of each
  commits,      \* history: per tenant, the number of edge writes committed so far
  acked,        \* history: per tenant, the latest edge write answered with success
  started,      \* number of requests started so far
  propEdges,    \* the active edges of the tenant, in the order the store returns them
  propOptions,  \* the options the engine was constructed with
  propConfig,   \* the config passed to propagate
  propResult,   \* the PropagationResult returned, NoResult before the call
  propPc,       \* "ready" before the propagate call, "done" after it
  runs,         \* the propagate calls made on one engine: position and locals of each
  engVisited,   \* PropagationEngine.visited of that engine
  regs,         \* the regulation table of the tenant, rows in creation order
  riskResults,  \* [results |-> what calculateAllRisks returned last], NoResult before a call
  comparison,   \* what compareImpact returned last, NoResult before a call
  sim,          \* a simulation request: the simulation row and the position of its run
  mc,           \* a MemoryCache with its clock, statistics and callbacks
  impacts       \* the regulationImpact table and the propagation runs writing it

riskVars == <<regs, riskResults, comparison>>

auxVars == <<sim, mc, impacts>>

propVars ==
  <<propEdges, propOptions, propConfig, propResult, propPc, runs, engVisited,
    regs, riskResults, comparison, sim, mc, impacts>>

sysVars == <<cache, dbEdges, dbEntities, procs, commits, acked, started>>

vars == <<cache, dbEdges, dbEntities, procs, commits, acked, started,
          propEdges, propOptions, propConfig, propResult, propPc, runs, engVisited,
          regs, riskResults, comparison, sim, mc, impacts>>

\* ------------------------------------------------------------------------
\* Exact fractions standing for the JavaScript numbers of the engine
\* ------------------------------------------------------------------------

RECURSIVE GCD(_, _)
GCD(a, b) == IF b = 0 THEN a ELSE CHOOSE g \in {GCD(b, r) : r \in {a % b}} : TRUE

Frac(n, d) == LET g == GCD(n, d) IN IF g = 0 THEN <<0, 1>> ELSE <<n \div g, d \div g>>

RMulOf(a, b) ==
  LET g1 == GCD(a[1], b[2])
      g2 == GCD(b[1], a[2])
      n1 == IF g1 = 0 THEN 0 ELSE (a[1] \div g1)
      d2 == IF g1 = 0 THEN 1 ELSE (b[2] \div g1)
      n2 == IF g2 = 0 THEN 0 ELSE (b[1] \div g2)
      d1 == IF g2 = 0 THEN 1 ELSE (a[2] \div g2)
  IN  Frac(n1 * n2, d1 * d2)

\* a * b, cross-reduced before multiplying to keep the integers small; the
\* operands are evaluated once
RMul(x, y) ==
  CHOOSE p \in {RMulOf(xy[1], xy[2]) : xy \in {<<x, y>>}} : TRUE

\* a < b and a <= b, compared over the least common denominator
RLess(x, y) ==
  \E a \in {x}, b \in {y} :
    \E g \in {GCD(a[2], b[2])} : a[1] * (b[2] \div g) < b[1] * (a[2] \div g)

RLeq(a, b) == ~RLess(b, a)

\* Math.max on two numbers
RMax(a, b) == IF RLess(a, b) THEN b ELSE a

One == <<1, 1>>

Zero == <<0, 1>>

\* a + b, a - b, |a| and a / b (b not zero)
RAdd(x, y) ==
  CHOOSE p \in {Frac(xy[1][1] * xy[2][2] + xy[2][1] * xy[1][2], xy[1][2] * xy[2][2]) :
                   xy \in {<<x, y>>}} : TRUE

RNeg(a) == <<0 - a[1], a[2]>>

RSub(a, b) == RAdd(a, RNeg(b))

RAbs(a) == IF a[1] < 0 THEN RNeg(a) ELSE a

RDiv(a, b) == RMul(a, IF b[1] < 0 THEN <<0 - b[2], 0 - b[1]>> ELSE <<b[2], b[1]>>)

\* ------------------------------------------------------------------------
\* Constant tables of lib/propagation
\* ------------------------------------------------------------------------

EntityTypes == {"DEPARTMENT", "BUDGET", "SERVICE", "KPI", "REGULATION"}

ImpactTypes == {"Direct", "Indirect", "Conditional"}

\* SEVERITY_WEIGHTS[targetType] ?? 1.0
SEVERITY_WEIGHTS(t) ==
  CASE t = "DEPARTMENT" -> <<1, 1>>
    [] t = "BUDGET"     -> <<9, 10>>
    [] t = "SERVICE"    -> <<4, 5>>
    [] t = "KPI"        -> <<7, 10>>
    [] t = "REGULATION" -> <<6, 5>>
    [] OTHER            -> <<1, 1>>

IMPACT_TYPE_MULTIPLIERS_Flat(t) == <<1, 1>>

\* IMPACT_TYPE_MULTIPLIERS[impactType] ?? 1.0
IMPACT_TYPE_MULTIPLIERS(t) ==
  CASE t = "Direct"      -> <<1, 1>>
    [] t = "Indirect"    -> <<3, 5>>
    [] t = "Conditional" -> <<3, 10>>
    [] OTHER             -> <<1, 1>>

\* ------------------------------------------------------------------------
\* Keys and maps
\* ------------------------------------------------------------------------

\* `${type}:${id}`
NodeKey(type, id) == <<type, ":", id>>

\* `${currentKey}->${targetKey}`
VisitedKey(currentKey, targetKey) == currentKey \o <<"->">> \o targetKey

\* Map.set and Map.delete on a map modelled as a function
MapSet(m, k, v) == [x \in (DOMAIN m) \cup {k} |-> IF x = k THEN v ELSE m[x]]

MapDel(m, ks) == [x \in (DOMAIN m) \ ks |-> m[x]]

EmptyMap == [x \in {} |-> x]

\* ------------------------------------------------------------------------
\* Graph builder: the adjacency indexes of buildDependencyGraph
\* ------------------------------------------------------------------------

SourceKeyOf(e) == NodeKey(e.sourceType, e.sourceId)

TargetKeyOf(e) == NodeKey(e.targetType, e.targetId)

\* the forEach of buildDependencyGraph: every edge is pushed, in order, to
\* outgoing[sourceKey] and to incoming[targetKey]
BuildAdjacency(edges) ==
  [ outgoing |-> [k \in {SourceKeyOf(edges[i]) : i \in DOMAIN edges} |->
                    SelectSeq(edges, LAMBDA e : SourceKeyOf(e) = k)],
    incoming |-> [k \in {TargetKeyOf(edges[i]) : i \in DOMAIN edges} |->
                    SelectSeq(edges, LAMBDA e : TargetKeyOf(e) = k)],
    allEdges |-> edges ]

\* ------------------------------------------------------------------------
\* Propagation engine
\* ------------------------------------------------------------------------

\* JavaScript values of a condition object are tagged: [t |-> "bool", v |-> TRUE],
\* [t |-> "num", v |-> <<n, d>>].  Truthy is the test `if (x)`.
Truthy(x) ==
  CASE x.t = "bool" -> x.v
    [] x.t = "num"  -> x.v[1] # 0
    [] OTHER        -> TRUE

\* the comparison `x > 0` of a value cast to number: a boolean converts to 1 or
\* 0, a string that is not a numeral to NaN, which compares false
GreaterThanZero(x) ==
  CASE x.t = "bool" -> x.v
    [] x.t = "num"  -> RLess(<<0, 1>>, x.v)
    [] OTHER        -> FALSE

\* PropagationEngine.evaluateConditions
evaluateConditions(conditions) ==
  IF "required" \in DOMAIN conditions /\ Truthy(conditions["required"])
  THEN conditions["required"] = [t |-> "bool", v |-> TRUE]
  ELSE IF "threshold" \in DOMAIN conditions /\ Truthy(conditions["threshold"])
       THEN GreaterThanZero(conditions["threshold"])
       ELSE TRUE

\* PropagationEngine.getEntityInfo folded with `?.name ?? id`: the name of the
\* entity in the store, or the id when the lookup finds nothing
EntityName(names, type, id) ==
  IF NodeKey(type, id) \in DOMAIN names THEN names[NodeKey(type, id)] ELSE id

\* PropagationEngine.propagateBFS: the recursion and its for-loop over the
\* outgoing edges of the current node.  eng holds the engine's fields (graph,
\* maxDepth, impactThreshold, includeIndirect, names); st holds the mutable
\* objects shared by the whole run (nodes, the insertion order of nodes,
\* edges, visited).
RECURSIVE propagateBFS(_, _, _, _, _, _)
RECURSIVE propagateEdges(_, _, _, _, _, _, _, _)

AlreadyVisited_Never(visited, visitedKey) == FALSE

\* this.visited.has(visitedKey)
AlreadyVisited(visited, visitedKey) == visitedKey \in visited

DepthStop_Never(depth, maxDepth) == FALSE

\* the stop condition depth >= this.maxDepth
DepthStop(depth, maxDepth) == depth >= maxDepth

propagateEdges(eng, currentType, currentId, currentImpact, depth, out, i, st) ==
  IF i > Len(out) THEN st
  ELSE
    LET edge       == out[i]
        currentKey == NodeKey(currentType, currentId)
        targetKey  == NodeKey(edge.targetType, edge.targetId)
        visitedKey == VisitedKey(currentKey, targetKey)
        propagatedImpact ==
          RMul(RMul(RMul(currentImpact, edge.impactWeight),
                    IMPACT_TYPE_MULTIPLIERS(edge.impactType)),
               SEVERITY_WEIGHTS(edge.targetType))
        pathEntry  == [sourceType |-> currentType, sourceId |-> currentId,
                       targetType |-> edge.targetType, targetId |-> edge.targetId,
                       weight |-> edge.impactWeight, impactType |-> edge.impactType]
        next(s)    == propagateEdges(eng, currentType, currentId, currentImpact,
                                     depth, out, i + 1, s)
    IN
      IF ~edge.isActive THEN next(st)
      ELSE IF edge.impactType = "Indirect" /\ ~eng.includeIndirect THEN next(st)
      ELSE IF edge.impactType = "Conditional" /\ ~evaluateConditions(edge.conditions)
           THEN next(st)
      ELSE IF AlreadyVisited(st.visited, visitedKey) THEN next(st)
      ELSE
        LET st1 == [st EXCEPT !.visited = @ \cup {visitedKey}]
        IN
          IF RLess(propagatedImpact, eng.impactThreshold) THEN next(st1)
          ELSE
            LET st2 ==
                  IF targetKey \in DOMAIN st1.nodes
                  THEN [st1 EXCEPT
                          !.edges = Append(@, pathEntry),
                          !.nodes = [@ EXCEPT ![targetKey] =
                             [@ EXCEPT !.impactScore = RMax(@, propagatedImpact),
                                       !.path = Append(@, pathEntry)]]]
                  ELSE [st1 EXCEPT
                          !.edges = Append(@, pathEntry),
                          !.order = Append(@, targetKey),
                          !.nodes = MapSet(@, targetKey,
                             [id |-> edge.targetId, type |-> edge.targetType,
                              name |-> EntityName(eng.names, edge.targetType, edge.targetId),
                              impactScore |-> propagatedImpact,
                              depth |-> depth + 1,
                              path |-> <<pathEntry>>])]
                st3 == propagateBFS(eng, edge.targetType, edge.targetId,
                                    propagatedImpact, depth + 1, st2)
            IN next(st3)

propagateBFS(eng, currentType, currentId, currentImpact, depth, st) ==
  IF DepthStop(depth, eng.maxDepth) THEN st
  ELSE IF RLess(currentImpact, eng.impactThreshold) THEN st
  ELSE
    LET currentKey == NodeKey(currentType, currentId)
        outgoingEdges == IF currentKey \in DOMAIN eng.graph.outgoing
                         THEN eng.graph.outgoing[currentKey] ELSE <<>>
    IN propagateEdges(eng, currentType, currentId, currentImpact, depth,
                      outgoingEdges, 1, st)

SetMax(S) == CHOOSE x \in S : \A y \in S : y <= x

\* PropagationEngine.propagate: the options of the config other than the
\* source and the initial impact are not read
propagate(eng, config) ==
  LET sourceKey == NodeKey(config.sourceType, config.sourceId)
      st0 == [nodes |-> MapSet(EmptyMap, sourceKey,
                 [id |-> config.sourceId, type |-> config.sourceType,
                  name |-> EntityName(eng.names, config.sourceType, config.sourceId),
                  impactScore |-> config.initialImpact,
                  depth |-> 0, path |-> <<>>]),
              order |-> <<sourceKey>>,
              edges |-> <<>>,
              visited |-> {}]
      st == propagateBFS(eng, config.sourceType, config.sourceId,
                         config.initialImpact, 0, st0)
  IN [sourceId |-> config.sourceId,
      sourceType |-> config.sourceType,
      totalAffected |-> Cardinality(DOMAIN st.nodes) - 1,
      maxDepth |-> SetMax({st.nodes[k].depth : k \in DOMAIN st.nodes}),
      nodes |-> st.nodes,
      order |-> st.order,
      edges |-> st.edges]

\* new PropagationEngine(tenantId, options) after initialize()
NewEngine(edges, names, options) ==
  [graph |-> BuildAdjacency(edges), names |-> names,
   maxDepth |-> options.maxDepth,
   impactThreshold |-> options.impactThreshold,
   includeIndirect |-> options.includeIndirect]

\* ------------------------------------------------------------------------
\* The store: tenants, their entities and the impactEdge rows
\* ------------------------------------------------------------------------

Tenants == {"tA", "tB"}

\* the entities of a tenant: index -> (type, id); ids are unique across tenants
TenantNodes(t) ==
  IF t = "tA"
  THEN <<[type |-> "REGULATION", id |-> "r1"], [type |-> "DEPARTMENT", id |-> "d1"],
         [type |-> "BUDGET", id |-> "b1"], [type |-> "SERVICE", id |-> "s1"],
         [type |-> "KPI", id |-> "k1"], [type |-> "REGULATION", id |-> "r3"],
         [type |-> "DEPARTMENT", id |-> "d3"]>>
  ELSE <<[type |-> "REGULATION", id |-> "r2"], [type |-> "DEPARTMENT", id |-> "d2"],
         [type |-> "BUDGET", id |-> "b2"], [type |-> "SERVICE", id |-> "s2"],
         [type |-> "KPI", id |-> "k2"], [type |-> "REGULATION", id |-> "r4"],
         [type |-> "DEPARTMENT", id |-> "d4"]>>

\* the name column of the entity rows that exist: the regulation and the
\* department of the tenant (the budget and the service ids match no row)
EntityNames(t) ==
  [k \in {NodeKey(TenantNodes(t)[i].type, TenantNodes(t)[i].id) : i \in {1, 2}} |-> "name"]

\* an entity row of tenant t with this type and id exists
EntityExists(t, type, id) == NodeKey(type, id) \in DOMAIN EntityNames(t)

\* db.impactEdge.create: a row between the entities p[1] and p[2] of tenant t
EdgeRow(id, t, p, w, ty) ==
  [id |-> id, tenantId |-> t,
   sourceType |-> TenantNodes(t)[p[1]].type, sourceId |-> TenantNodes(t)[p[1]].id,
   targetType |-> TenantNodes(t)[p[2]].type, targetId |-> TenantNodes(t)[p[2]].id,
   impactWeight |-> w, impactType |-> ty,
   conditions |-> EmptyMap, isActive |-> TRUE]

\* ------------------------------------------------------------------------
\* MemoryCache (lib/cache)
\* ------------------------------------------------------------------------

\* the token sequence of an id that holds no separator
Chars(id) == <<id>>

\* generateKey: `${tenantId}:${key}`, the concatenation of the characters of
\* the tenant id, a colon and the characters of the key
generateKey(tenantId, key) == tenantId \o <<":">> \o key

\* CacheKeys.dependencyGraph: `dependency-graph:${tenantId}`
CacheKeyDependencyGraph(tenantId) == <<"dependency-graph", ":", tenantId>>

\* the propagation route's key `propagation:${sourceType}:${sourceId}`
CacheKeyPropagation(sourceType, sourceId) ==
  <<"propagation", ":", sourceType, ":", sourceId>>

\* CacheTags; a tag is a token sequence like every other string
TagDependencyGraph == <<"dependency-graph">>

TagRiskScores == <<"risk-scores">>

TagImpactAnalysis == <<"impact-analysis">>

TagRegulation(id) == <<"regulation", ":", id>>

TagEntity(type, id) == <<"entity", ":", type, ":", id>>

TagTenant(tenantId) == <<tenantId>>

\* Array.prototype.includes
Includes(arr, x) == \E i \in DOMAIN arr : arr[i] = x

\* TTLs in minutes: 60 * 60 * 1000 ms and 10 * 60 * 1000 ms
GraphTtlMinutes == 60

PropagationTtlMinutes == 10

\* MemoryCache.set: the entry carries the tags [tenantId, ...tags].  asOf is a
\* history field (the edge-commit count the data was read at), not program state.
CacheSet(c, tenantId, key, data, ttl, tags, asOf) ==
  MapSet(c, generateKey(Chars(tenantId), key),
         [data |-> data, ttl |-> ttl, tags |-> <<TagTenant(tenantId)>> \o tags,
          asOf |-> asOf])

\* MemoryCache.get / has, for an entry that has not expired
CacheHas(c, tenantId, key) == generateKey(Chars(tenantId), key) \in DOMAIN c

CacheGet(c, tenantId, key) == c[generateKey(Chars(tenantId), key)]

TagsMatch_OnlyFirst(entryTags, tags) == Includes(tags, entryTags[1])

\* tags.some((tag) => entry.tags.includes(tag))
TagsMatch(entryTags, tags) == \E i \in DOMAIN tags : Includes(entryTags, tags[i])

\* MemoryCache.invalidateByTags: every entry carrying one of the tags is deleted
invalidateByTags(c, tags) ==
  MapDel(c, {k \in DOMAIN c : TagsMatch(c[k].tags, tags)})

\* MemoryCache.invalidateByTag
invalidateByTag(c, tag) == invalidateByTags(c, <<tag>>)

\* MemoryCache.invalidateRegulation: tenantId is not used
invalidateRegulation(c, tenantId, regulationId) ==
  invalidateByTags(c, <<TagRegulation(regulationId), TagDependencyGraph,
                        TagRiskScores, TagImpactAnalysis>>)

\* MemoryCache.invalidateEntity: tenantId is not used
invalidateEntity(c, tenantId, entityType, entityId) ==
  invalidateByTags(c, <<TagEntity(entityType, entityId), TagDependencyGraph,
                        TagRiskScores>>)

\* MemoryCache.invalidateEdge: tenantId is not used
invalidateEdge(c, tenantId) == invalidateByTag(c, TagDependencyGraph)

\* ------------------------------------------------------------------------
\* Route handlers.  A handler is suspended at each awaited store call; a step
\* is the store call together with the synchronous code that follows it.
\* ------------------------------------------------------------------------

MaxProcs == 2

MaxOps == 3

Procs == 1..MaxProcs

\* the rows present when the process starts: one active edge per tenant
SeedEdges ==
  <<EdgeRow(1, "tA", <<1, 2>>, One, "Direct"), EdgeRow(2, "tB", <<1, 2>>, One, "Direct")>>

\* request inputs
PostPairs == {<<1, 2>>, <<2, 4>>}

PutWeights == {<<1, 2>>}

MaxEdgeId == 3

EdgeIds == 1..MaxEdgeId

ModelEntityTypes == {"REGULATION", "DEPARTMENT"}

PropagationSources == {1, 2}

\* the defaults of the PropagationEngine constructor
DefaultMaxDepth == 10

DefaultOptions ==
  [maxDepth |-> DefaultMaxDepth, impactThreshold |-> <<1, 100>>, includeIndirect |-> TRUE]

NoResp == [status |-> 0]

NoResult == [none |-> TRUE]

MaxRuns == 2

RunIds == 1..MaxRuns

\* a propagate call that has not been made
IdleRun ==
  [pc |-> "idle", stack |-> <<>>, nodes |-> EmptyMap, order |-> <<>>, edges |-> <<>>,
   pending |-> <<>>, overlapped |-> FALSE, result |-> NoResult]

NoRuns == runs = [r \in RunIds |-> IdleRun] /\ engVisited = {}

\* no regulation rows, no risk calculation and no comparison made
NoRisk == regs = <<>> /\ riskResults = NoResult /\ comparison = NoResult

\* no simulation requested, no propagation run of the route, and a cache
\* that is not looked at
NoAux == sim = NoResult /\ mc = NoResult /\ impacts = NoResult

IdleProc ==
  [op |-> "none", pc |-> "idle", tenantId |-> "none", arg |-> <<>>, snap |-> <<>>,
   asOf |-> 0, ack0 |-> 0, resp |-> NoResp]

SysInit ==
  /\ cache = EmptyMap
  /\ dbEdges = SeedEdges
  /\ dbEntities = [t \in Tenants |-> [e \in ModelEntityTypes |-> 1]]
  /\ procs = [p \in Procs |-> IdleProc]
  /\ commits = [t \in Tenants |-> 0]
  /\ acked = [t \in Tenants |-> 0]
  /\ started = 0

\* a handler slot can take a new request
Free(p) == procs[p].pc \in {"idle", "done"} /\ started < MaxOps

\* the locals of a request that has just arrived; ack0 is a history field: the
\* latest edge write of the tenant already answered with success
Begin(op, t, arg) ==
  [IdleProc EXCEPT !.op = op, !.tenantId = t, !.arg = arg, !.ack0 = acked[t]]

Max2(a, b) == IF a < b THEN b ELSE a

IsEdgeOp(op) == op \in {"edgePost", "edgePut", "edgeDelete"}

ActiveEdges_AnyTenant(rows, t) == SelectSeq(rows, LAMBDA e : e.isActive)

\* db.impactEdge.findMany({ where: { tenantId, isActive: true } })
ActiveEdges(rows, t) == SelectSeq(rows, LAMBDA e : e.tenantId = t /\ e.isActive)

\* POST edges: the self-reference test and the duplicate check
\* db.impactEdge.findFirst({ where: { tenantId, source, target } })
EdgePostFind(p, t, pair) ==
  /\ Free(p)
  /\ started' = started + 1
  /\ LET row == EdgeRow(0, t, pair, One, "Direct")
         existing == \E i \in DOMAIN dbEdges :
                       /\ dbEdges[i].tenantId = t
                       /\ SourceKeyOf(dbEdges[i]) = SourceKeyOf(row)
                       /\ TargetKeyOf(dbEdges[i]) = TargetKeyOf(row)
         b == Begin("edgePost", t, [pair |-> pair])
     IN procs' = [procs EXCEPT ![p] =
                    IF SourceKeyOf(row) = TargetKeyOf(row) \/ existing
                    THEN [b EXCEPT !.pc = "done", !.resp = [status |-> 400]]
                    ELSE [b EXCEPT !.pc = "write"]]
  /\ UNCHANGED <<cache, dbEdges, dbEntities, commits, acked, propVars>>

SameEndpoints(e, f) ==
  /\ e.tenantId = f.tenantId
  /\ SourceKeyOf(e) = SourceKeyOf(f)
  /\ TargetKeyOf(e) = TargetKeyOf(f)

UniqueViolation_None(rows, row) == FALSE

\* the store's uniqueness on (tenant, source, target) of ImpactEdge: a row
\* with the endpoints of row is there already
UniqueViolation(rows, row) == \E i \in DOMAIN rows : SameEndpoints(rows[i], row)

\* the response of the route's catch block when db.impactEdge.create raised
EdgeCreateFailed == [status |-> 500, raisedBy |-> "create"]

\* POST edges: db.impactEdge.create; the store rejects a row that breaks the
\* uniqueness, and the route's catch block answers 500
EdgePostCreate(p) ==
  /\ procs[p].pc = "write" /\ procs[p].op = "edgePost"
  /\ LET t == procs[p].tenantId
         row == EdgeRow(Len(dbEdges) + 1, t, procs[p].arg.pair, One, "Direct")
     IN IF UniqueViolation(dbEdges, row)
        THEN /\ procs' = [procs EXCEPT ![p].pc = "done", ![p].resp = EdgeCreateFailed]
             /\ UNCHANGED <<dbEdges, commits>>
        ELSE /\ dbEdges' = Append(dbEdges, row)
             /\ commits' = [commits EXCEPT ![t] = @ + 1]
             /\ procs' = [procs EXCEPT ![p].pc = "audit", ![p].asOf = commits[t] + 1]
  /\ UNCHANGED <<cache, dbEntities, acked, started, propVars>>

\* PUT and DELETE edges/[id]: db.impactEdge.findFirst({ where: { id, tenantId } })
EdgeByIdFind(p, t, op, id, w) ==
  /\ Free(p)
  /\ op \in {"edgePut", "edgeDelete"}
  /\ started' = started + 1
  /\ LET b == Begin(op, t, [id |-> id, w |-> w])
     IN procs' = [procs EXCEPT ![p] =
                    IF id \in DOMAIN dbEdges /\ dbEdges[id].tenantId = t
                    THEN [b EXCEPT !.pc = "write"]
                    ELSE [b EXCEPT !.pc = "done", !.resp = [status |-> 404]]]
  /\ UNCHANGED <<cache, dbEdges, dbEntities, commits, acked, propVars>>

\* PUT edges/[id]: db.impactEdge.update({ where: { id }, data: validated })
EdgePutUpdate(p) ==
  /\ procs[p].pc = "write" /\ procs[p].op = "edgePut"
  /\ LET t == procs[p].tenantId IN
       /\ dbEdges' = [dbEdges EXCEPT ![procs[p].arg.id].impactWeight = procs[p].arg.w]
       /\ commits' = [commits EXCEPT ![t] = @ + 1]
       /\ procs' = [procs EXCEPT ![p].pc = "audit", ![p].asOf = commits[t] + 1]
  /\ UNCHANGED <<cache, dbEntities, acked, started, propVars>>

\* DELETE edges/[id]: db.impactEdge.update({ where: { id }, data: { isActive: false } })
EdgeDeleteUpdate(p) ==
  /\ procs[p].pc = "write" /\ procs[p].op = "edgeDelete"
  /\ LET t == procs[p].tenantId IN
       /\ dbEdges' = [dbEdges EXCEPT ![procs[p].arg.id].isActive = FALSE]
       /\ commits' = [commits EXCEPT ![t] = @ + 1]
       /\ procs' = [procs EXCEPT ![p].pc = "audit", ![p].asOf = commits[t] + 1]
  /\ UNCHANGED <<cache, dbEntities, acked, started, propVars>>

\* PUT regulations/[id] and PUT departments/[id]: findFirst({ where: { id, tenantId } })
\* for the tenant's own entity, which exists
EntityPutFind(p, t, type) ==
  /\ Free(p)
  /\ type \in ModelEntityTypes
  /\ started' = started + 1
  /\ procs' = [procs EXCEPT ![p] = [Begin("entityPut", t, [type |-> type]) EXCEPT !.pc = "write"]]
  /\ UNCHANGED <<cache, dbEdges, dbEntities, commits, acked, propVars>>

\* PUT regulations/[id] and PUT departments/[id]: the update of the row
EntityPutUpdate(p) ==
  /\ procs[p].pc = "write" /\ procs[p].op = "entityPut"
  /\ dbEntities' = [dbEntities EXCEPT ![procs[p].tenantId][procs[p].arg.type] = @ + 1]
  /\ procs' = [procs EXCEPT ![p].pc = "audit"]
  /\ UNCHANGED <<cache, dbEdges, commits, acked, started, propVars>>

\* the invalidation a mutation handler performs after its audit-log write:
\* cache.invalidateRegulation(tenantId, id) in PUT regulations/[id],
\* cache.invalidateByTag(CacheTags.dependencyGraph) in every other handler
InvalidationOf(c, pr) ==
  IF pr.op = "entityPut" /\ pr.arg.type = "REGULATION"
  THEN invalidateRegulation(c, pr.tenantId, TenantNodes(pr.tenantId)[1].id)
  ELSE invalidateByTag(c, TagDependencyGraph)

\* the last step of every mutation handler: db.auditLog.create, then the
\* invalidation and the success response; when the audit-log write throws, the
\* catch block answers 500 and nothing is invalidated
MutationRespond(p) ==
  /\ procs[p].pc = "audit"
  /\ procs[p].op \in {"edgePost", "edgePut", "edgeDelete", "entityPut"}
  /\ \E auditOk \in BOOLEAN :
       LET pr == procs[p]
           t == pr.tenantId
       IN
         /\ cache' = IF auditOk THEN InvalidationOf(cache, pr) ELSE cache
         /\ acked' = IF auditOk /\ IsEdgeOp(pr.op)
                     THEN [acked EXCEPT ![t] = Max2(@, pr.asOf)] ELSE acked
         /\ procs' = [procs EXCEPT ![p].pc = "done",
                        ![p].resp = [status |-> IF ~auditOk THEN 500
                                                ELSE IF pr.op = "edgePost" THEN 201 ELSE 200]]
  /\ UNCHANGED <<dbEdges, dbEntities, commits, started, propVars>>

\* POST graph: cache.invalidateByTag(CacheTags.dependencyGraph)
GraphInvalidatePost(p, t) ==
  /\ Free(p)
  /\ started' = started + 1
  /\ cache' = invalidateByTag(cache, TagDependencyGraph)
  /\ procs' = [procs EXCEPT ![p] =
                 [Begin("graphInvalidate", t, <<>>) EXCEPT !.pc = "done",
                                                          !.resp = [status |-> 200]]]
  /\ UNCHANGED <<dbEdges, dbEntities, commits, acked, propVars>>

\* a caller of the cache's convenience routines invalidateEdge(tenantId) and
\* invalidateEntity(tenantId, type, id)
InvalidateApiCall(p, t, routine) ==
  /\ Free(p)
  /\ routine \in {"invalidateEdge", "invalidateEntity"}
  /\ started' = started + 1
  /\ cache' = IF routine = "invalidateEdge"
              THEN invalidateEdge(cache, t)
              ELSE invalidateEntity(cache, t, TenantNodes(t)[2].type, TenantNodes(t)[2].id)
  /\ procs' = [procs EXCEPT ![p] =
                 [Begin(routine, t, <<>>) EXCEPT !.pc = "done", !.resp = [status |-> 200]]]
  /\ UNCHANGED <<dbEdges, dbEntities, commits, acked, propVars>>

\* POST propagation, up to the first store call after the tenant lookup: the
\* result-cache check, then propagateImpact -> propagate -> initialize ->
\* buildDependencyGraph with its cache check
PropagationStart(p, t, src) ==
  /\ Free(p)
  /\ started' = started + 1
  /\ LET node == TenantNodes(t)[src]
         key == CacheKeyPropagation(node.type, node.id)
         b == Begin("propagation", t, [sourceType |-> node.type, sourceId |-> node.id])
     IN procs' = [procs EXCEPT ![p] =
          IF CacheHas(cache, t, key)
          THEN [b EXCEPT !.pc = "done",
                         !.asOf = CacheGet(cache, t, key).asOf,
                         !.resp = [status |-> 200, cached |-> TRUE,
                                   data |-> CacheGet(cache, t, key).data]]
          ELSE IF CacheHas(cache, t, CacheKeyDependencyGraph(t))
          THEN [b EXCEPT !.pc = "traverse",
                         !.asOf = CacheGet(cache, t, CacheKeyDependencyGraph(t)).asOf,
                         !.snap = CacheGet(cache, t, CacheKeyDependencyGraph(t)).data]
          ELSE [b EXCEPT !.pc = "readEdges"]]
  /\ UNCHANGED <<cache, dbEdges, dbEntities, commits, acked, propVars>>

\* the response of the route's catch block when db.impactEdge.findMany raised
GraphLoadFailed == [status |-> 500, raisedBy |-> "findMany"]

GraphLoadFailure_Swallowed(proc) ==
  [proc EXCEPT !.pc = "cacheGraph", !.resp = GraphLoadFailed]

\* findMany rejects: buildDependencyGraph, initialize, propagate and
\* propagateImpact have no handler, the route's catch block answers 500
GraphLoadFailure(proc) ==
  [proc EXCEPT !.pc = "done", !.resp = GraphLoadFailed]

\* buildDependencyGraph: the store executes db.impactEdge.findMany, or fails to
BuildReadEdges(p) ==
  /\ procs[p].pc = "readEdges"
  /\ \E ok \in BOOLEAN :
       procs' = [procs EXCEPT ![p] =
                   IF ok
                   THEN [@ EXCEPT !.pc = "cacheGraph",
                                  !.snap = ActiveEdges(dbEdges, procs[p].tenantId),
                                  !.asOf = commits[procs[p].tenantId]]
                   ELSE GraphLoadFailure(@)]
  /\ UNCHANGED <<cache, dbEdges, dbEntities, commits, acked, started, propVars>>

\* buildDependencyGraph resumes with the rows: adjacency lists, then cache.set
BuildCacheGraph(p) ==
  /\ procs[p].pc = "cacheGraph"
  /\ LET t == procs[p].tenantId
         graph == BuildAdjacency(procs[p].snap)
     IN /\ cache' = CacheSet(cache, t, CacheKeyDependencyGraph(t), graph, GraphTtlMinutes,
                             <<TagDependencyGraph, TagTenant(t)>>, procs[p].asOf)
        /\ procs' = [procs EXCEPT ![p].pc = "traverse", ![p].snap = graph]
  /\ UNCHANGED <<dbEdges, dbEntities, commits, acked, started, propVars>>

\* propagateImpact(config): an engine with the default options
propagateImpact(graph, names, config) ==
  propagate([graph |-> graph, names |-> names,
             maxDepth |-> DefaultOptions.maxDepth,
             impactThreshold |-> DefaultOptions.impactThreshold,
             includeIndirect |-> DefaultOptions.includeIndirect], config)

\* POST propagation: the traversal over the graph object it holds, then
\* cache.set of the result under the propagation key
PropagationTraverse(p) ==
  /\ procs[p].pc = "traverse"
  /\ LET t == procs[p].tenantId
         a == procs[p].arg
         result == propagateImpact(procs[p].snap, EntityNames(t),
                     [sourceType |-> a.sourceType, sourceId |-> a.sourceId,
                      initialImpact |-> One])
     IN /\ cache' = CacheSet(cache, t, CacheKeyPropagation(a.sourceType, a.sourceId),
                             result, PropagationTtlMinutes,
                             <<<<"propagation">>, TagEntity(a.sourceType, a.sourceId)>>,
                             procs[p].asOf)
        /\ procs' = [procs EXCEPT ![p].pc = "audit", ![p].snap = result]
  /\ UNCHANGED <<dbEdges, dbEntities, commits, acked, started, propVars>>

\* POST propagation: db.auditLog.create, then the response
PropagationRespond(p) ==
  /\ procs[p].pc = "audit" /\ procs[p].op = "propagation"
  /\ \E auditOk \in BOOLEAN :
       procs' = [procs EXCEPT ![p].pc = "done", ![p].snap = <<>>,
                   ![p].resp = IF auditOk
                               THEN [status |-> 200, cached |-> FALSE, data |-> procs[p].snap]
                               ELSE [status |-> 500]]
  /\ UNCHANGED <<cache, dbEdges, dbEntities, commits, acked, started, propVars>>

Next ==
  \/ \E p \in Procs, t \in Tenants, pair \in PostPairs : EdgePostFind(p, t, pair)
  \/ \E p \in Procs : EdgePostCreate(p)
  \/ \E p \in Procs, t \in Tenants, op \in {"edgePut", "edgeDelete"},
        id \in EdgeIds, w \in PutWeights : EdgeByIdFind(p, t, op, id, w)
  \/ \E p \in Procs : EdgePutUpdate(p)
  \/ \E p \in Procs : EdgeDeleteUpdate(p)
  \/ \E p \in Procs, t \in Tenants, type \in ModelEntityTypes : EntityPutFind(p, t, type)
  \/ \E p \in Procs : EntityPutUpdate(p)
  \/ \E p \in Procs : MutationRespond(p)
  \/ \E p \in Procs, t \in Tenants : GraphInvalidatePost(p, t)
  \/ \E p \in Procs, t \in Tenants, routine \in {"invalidateEdge", "invalidateEntity"} :
        InvalidateApiCall(p, t, routine)
  \/ \E p \in Procs, t \in Tenants, src \in PropagationSources : PropagationStart(p, t, src)
  \/ \E p \in Procs : BuildReadEdges(p)
  \/ \E p \in Procs : BuildCacheGraph(p)
  \/ \E p \in Procs : PropagationTraverse(p)
  \/ \E p \in Procs : PropagationRespond(p)

\* the propagation variables are not used by the handlers
Init ==
  /\ SysInit
  /\ propEdges = <<>>
  /\ propOptions = DefaultOptions
  /\ propConfig = [sourceType |-> "REGULATION", sourceId |-> "r1", initialImpact |-> One]
  /\ propResult = NoResult
  /\ propPc = "idle"
  /\ NoRuns
  /\ NoRisk
  /\ NoAux

Spec == Init /\ [][Next]_vars

\* ------------------------------------------------------------------------
\* Properties of the route handlers and the cache (specification Spec)
\* ------------------------------------------------------------------------

MutationOps == {"edgePost", "edgePut", "edgeDelete", "entityPut"}

Success(pr) == pr.pc = "done" /\ pr.resp.status \in {200, 201}

\* the tenant an entry was stored under: set() puts tenantId first in the tags
EntryTenant(entry) == entry.tags[1][1]

\* C1: whatever the interleaving of graph builds and edge mutations, a cached
\* dependency graph of a tenant is not older than the latest edge write of
\* that tenant whose invalidation has completed.
C1_CachedGraphNotStale ==
  \A t \in Tenants :
    CacheHas(cache, t, CacheKeyDependencyGraph(t))
      => CacheGet(cache, t, CacheKeyDependencyGraph(t)).asOf >= acked[t]

\* C2: a step removes a cache entry only when the handler taking the step
\* acts for the tenant the entry was stored under.
C2_InvalidationStaysInTenant ==
  [][\A k \in DOMAIN cache :
       k \in DOMAIN cache'
       \/ \E p \in Procs : procs'[p] # procs[p]
                           /\ procs'[p].tenantId = EntryTenant(cache[k])]_vars

C4_PropagationAfterMutationIsFresh ==
  \A p \in Procs :
    (procs[p].op = "propagation" /\ Success(procs[p]))
      => procs[p].asOf >= procs[p].ack0


\* ------------------------------------------------------------------------
\* Specification SpecProp: one propagate call on a bounded family of graphs
\* ------------------------------------------------------------------------

MaxEdges == 4

MaxDepthOpt == 3

\* the (source, target) pairs an edge may connect
EdgeUniverse ==
  {<<1, 2>>, <<1, 3>>, <<2, 1>>, <<2, 3>>, <<2, 4>>, <<3, 2>>, <<3, 4>>}

\* the (impactWeight, impactType) an edge may carry
EdgeAttrs ==
  {[w |-> <<1, 1>>, t |-> "Direct"], [w |-> <<1, 2>>, t |-> "Direct"],
   [w |-> <<1, 1>>, t |-> "Indirect"]}

Thresholds == {<<1, 100>>, <<1, 2>>, <<7, 10>>}

InitialImpacts == {<<1, 1>>, <<1, 2>>}

PNodes == TenantNodes("tA")

PNames == EntityNames("tA")

MkEdge(p, a) == EdgeRow(p, "tA", p, a.w, a.t)

\* the rows in creation order: by source, then by target
RECURSIVE EdgeRows(_, _)
EdgeRows(ps, attr) ==
  IF ps = {} THEN <<>>
  ELSE LET p == CHOOSE x \in ps : \A y \in ps : x[1] * 10 + x[2] <= y[1] * 10 + y[2]
       IN <<MkEdge(p, attr[p])>> \o EdgeRows(ps \ {p}, attr)

InitProp ==
  /\ \E ps \in SUBSET EdgeUniverse :
        /\ Cardinality(ps) <= MaxEdges
        /\ \E attr \in [ps -> EdgeAttrs] : propEdges = EdgeRows(ps, attr)
  /\ propOptions \in [maxDepth : 1..MaxDepthOpt, impactThreshold : Thresholds,
                       includeIndirect : BOOLEAN]
  /\ propConfig \in [sourceType : {PNodes[1].type}, sourceId : {PNodes[1].id},
                      initialImpact : InitialImpacts]
  /\ propResult = NoResult
  /\ propPc = "ready"
  /\ NoRuns
  /\ NoRisk
  /\ NoAux
  /\ SysInit

\* engine = new PropagationEngine(tenant, options); result = await engine.propagate(config)
PropagateCall ==
  /\ propPc = "ready"
  /\ propResult' = propagate(NewEngine(propEdges, PNames, propOptions), propConfig)
  /\ propPc' = "done"
  /\ UNCHANGED <<propEdges, propOptions, propConfig, runs, engVisited, riskVars, auxVars>>
  /\ UNCHANGED sysVars

NextProp == PropagateCall

SpecProp == InitProp /\ [][NextProp]_vars

\* ------------------------------------------------------------------------
\* Properties of a propagation result (specification SpecProp)
\* ------------------------------------------------------------------------

PropSourceKey == NodeKey(propConfig.sourceType, propConfig.sourceId)

PropEngine(options) == NewEngine(propEdges, PNames, options)

\* impact carried over edge e from a node with accumulated impact c
StepImpact(c, e) ==
  RMul(RMul(RMul(c, e.impactWeight), IMPACT_TYPE_MULTIPLIERS(e.impactType)),
       SEVERITY_WEIGHTS(e.targetType))

\* node keys reachable from `key` (accumulated impact c) by a sequence of at
\* most k consecutive graph edges on which every step's impact is >= theta
RECURSIVE SurvivingReach(_, _, _, _, _)
SurvivingReach(edges, theta, key, c, k) ==
  IF k = 0 THEN {}
  ELSE UNION { {TargetKeyOf(edges[i])} \cup
               SurvivingReach(edges, theta, TargetKeyOf(edges[i]),
                              StepImpact(c, edges[i]), k - 1) :
               i \in {j \in DOMAIN edges :
                        /\ SourceKeyOf(edges[j]) = key
                        /\ ~RLess(StepImpact(c, edges[j]), theta)} }

\* C5: every node of the result other than the source is reachable from the
\* source by a sequence of at most maxDepth graph edges on which every step's
\* accumulated impact is >= impactThreshold, and no node has a recorded depth
\* greater than maxDepth.
C5_NodesReachableWithinCaps ==
  propPc = "done" =>
    /\ \A k \in (DOMAIN propResult.nodes) \ {PropSourceKey} :
          k \in SurvivingReach(propEdges, propOptions.impactThreshold, PropSourceKey,
                               propConfig.initialImpact, propOptions.maxDepth)
    /\ \A k \in DOMAIN propResult.nodes :
          propResult.nodes[k].depth <= propOptions.maxDepth

\* a run that reached the depth cap two hops out and lost an edge to the threshold
C5_Witness ==
  /\ propPc = "done"
  /\ propOptions.maxDepth >= 2
  /\ \E k \in DOMAIN propResult.nodes : propResult.nodes[k].depth = propOptions.maxDepth
  /\ \E i \in DOMAIN propEdges :
        /\ SourceKeyOf(propEdges[i]) \in DOMAIN propResult.nodes
        /\ TargetKeyOf(propEdges[i]) \notin DOMAIN propResult.nodes

\* C6: the source node is in the result with depth 0 and impactScore equal to
\* initialImpact, for every graph.
C6_SourceKeepsInitialImpact ==
  propPc = "done" =>
    /\ PropSourceKey \in DOMAIN propResult.nodes
    /\ propResult.nodes[PropSourceKey].depth = 0
    /\ propResult.nodes[PropSourceKey].impactScore = propConfig.initialImpact

\* C7: monotone threshold: the node set under a threshold is a superset of the
\* node set under any larger threshold, all else equal.
C7_MonotoneThreshold ==
  propPc = "done" =>
    \A t2 \in Thresholds :
      RLess(propOptions.impactThreshold, t2) =>
        DOMAIN propagate(PropEngine([propOptions EXCEPT !.impactThreshold = t2]),
                         propConfig).nodes
          \subseteq DOMAIN propResult.nodes

\* C8: monotone depth: the node set under a depth cap is a subset of the node
\* set under any larger depth cap, all else equal.
C8_MonotoneDepth ==
  propPc = "done" =>
    \A d2 \in 1..MaxDepthOpt :
      propOptions.maxDepth < d2 =>
        DOMAIN propResult.nodes
          \subseteq DOMAIN propagate(PropEngine([propOptions EXCEPT !.maxDepth = d2]),
                                     propConfig).nodes

\* C9: includes-indirect monotone: the node set with includeIndirect = false
\* is a subset of the node set with includeIndirect = true, all else equal.
C9_MonotoneIndirect ==
  (propPc = "done" /\ ~propOptions.includeIndirect) =>
    DOMAIN propResult.nodes
      \subseteq DOMAIN propagate(PropEngine([propOptions EXCEPT !.includeIndirect = TRUE]),
                                 propConfig).nodes

PathPair(e) == <<NodeKey(e.sourceType, e.sourceId), NodeKey(e.targetType, e.targetId)>>

\* C10: each (source key, target key) pair occurs at most once in result.edges.
C10_EdgePairsUnique ==
  propPc = "done" =>
    \A i, j \in DOMAIN propResult.edges :
      i # j => PathPair(propResult.edges[i]) # PathPair(propResult.edges[j])

\* a run over a cycle through the source: both edges of the cycle were accepted
\* and the run came back to the source with depth left to go round again
C10_Witness ==
  /\ propPc = "done"
  /\ propOptions.maxDepth >= 3
  /\ \E i, j \in DOMAIN propResult.edges :
        /\ i < j
        /\ PathPair(propResult.edges[i])[1] = PropSourceKey
        /\ PathPair(propResult.edges[j])[2] = PropSourceKey
        /\ PathPair(propResult.edges[i])[2] = PathPair(propResult.edges[j])[1]

\* ------------------------------------------------------------------------
\* Specification SpecRun: propagate calls made on one initialized engine,
\* step by step.  A call is suspended at each awaited getEntityInfo; a step is
\* the code between two suspensions.
\* ------------------------------------------------------------------------

\* the pairs and attributes of the graphs, the options and the sources
RunEdgeUniverse == {<<1, 2>>, <<2, 1>>, <<2, 3>>, <<1, 3>>}

RunEdgeAttrs == {[w |-> <<9, 10>>, t |-> "Direct"], [w |-> <<1, 1>>, t |-> "Direct"]}

RunThresholds == {<<0, 1>>, <<1, 100>>}

MaxRunDepth == 5

RunDepths == {2, MaxRunDepth}

\* the frame of a propagateBFS invocation: its arguments, the outgoingEdges it
\* iterates and the position of the for loop
Frame(eng, type, id, impact, depth) ==
  [type |-> type, id |-> id, impact |-> impact, depth |-> depth,
   out |-> IF NodeKey(type, id) \in DOMAIN eng.graph.outgoing
           THEN eng.graph.outgoing[NodeKey(type, id)] ELSE <<>>,
   i |-> 1]

\* the return value of propagate
RunResult(config, run) ==
  [sourceId |-> config.sourceId,
   sourceType |-> config.sourceType,
   totalAffected |-> Cardinality(DOMAIN run.nodes) - 1,
   maxDepth |-> SetMax({run.nodes[k].depth : k \in DOMAIN run.nodes}),
   nodes |-> run.nodes,
   order |-> run.order,
   edges |-> run.edges]

\* propagateBFS from the top frame's for loop up to the next suspension: the
\* loop skips edges, returns to the caller's loop when it is exhausted, and
\* stops at the await of getEntityInfo for an accepted edge; when the outermost
\* invocation returns, propagate returns its result.  s = [run, visited].
RECURSIVE Advance(_, _, _)
RECURSIVE AdvanceFrom(_, _, _)
AdvanceFrom(eng, config, s) ==
  LET run == s.run
      n == Len(run.stack)
  IN
  IF n = 0
  THEN [s EXCEPT !.run = [run EXCEPT !.pc = "done", !.result = RunResult(config, run)]]
  ELSE
    LET top == run.stack[n] IN
    IF top.i > Len(top.out)
    THEN Advance(eng, config, [s EXCEPT !.run.stack = SubSeq(run.stack, 1, n - 1)])
    ELSE
      LET edge       == top.out[top.i]
          currentKey == NodeKey(top.type, top.id)
          targetKey  == NodeKey(edge.targetType, edge.targetId)
          visitedKey == VisitedKey(currentKey, targetKey)
          propagatedImpact ==
            RMul(RMul(RMul(top.impact, edge.impactWeight),
                      IMPACT_TYPE_MULTIPLIERS(edge.impactType)),
                 SEVERITY_WEIGHTS(edge.targetType))
          pathEntry  == [sourceType |-> top.type, sourceId |-> top.id,
                         targetType |-> edge.targetType, targetId |-> edge.targetId,
                         weight |-> edge.impactWeight, impactType |-> edge.impactType]
          s1 == [s EXCEPT !.run.stack[n].i = top.i + 1]
      IN
        IF ~edge.isActive THEN Advance(eng, config, s1)
        ELSE IF edge.impactType = "Indirect" /\ ~eng.includeIndirect
             THEN Advance(eng, config, s1)
        ELSE IF edge.impactType = "Conditional" /\ ~evaluateConditions(edge.conditions)
             THEN Advance(eng, config, s1)
        ELSE IF AlreadyVisited(s.visited, visitedKey) THEN Advance(eng, config, s1)
        ELSE
          LET s2 == [s1 EXCEPT !.visited = @ \cup {visitedKey}] IN
          IF RLess(propagatedImpact, eng.impactThreshold) THEN Advance(eng, config, s2)
          ELSE [s2 EXCEPT !.run.edges = Append(@, pathEntry),
                          !.run.pc = "target",
                          !.run.pending = [edge |-> edge, pathEntry |-> pathEntry,
                                           from |-> top.impact,
                                           propagatedImpact |-> propagatedImpact,
                                           depth |-> top.depth]]

\* AdvanceFrom applied to the value of s0 (s0 is evaluated once)
Advance(eng, config, s0) ==
  CHOOSE next \in {AdvanceFrom(eng, config, s) : s \in {s0}} : TRUE

\* a call of propagateBFS: the stop conditions, then the for loop
Enter(eng, config, s, type, id, impact, depth) ==
  IF DepthStop(depth, eng.maxDepth) \/ RLess(impact, eng.impactThreshold)
  THEN Advance(eng, config, s)
  ELSE Advance(eng, config,
               [s EXCEPT !.run.stack = Append(@, Frame(eng, type, id, impact, depth))])

RunEngine == NewEngine(propEdges, PNames, propOptions)

InProgress(run) == run.pc \notin {"idle", "done"}

\* propagate up to the await of getEntityInfo for the source: the engine's
\* visited set is cleared.  overlapped is a history field: the call started
\* while another call on the engine was in progress.
RunStart(r) ==
  /\ runs[r].pc = "idle"
  /\ engVisited' = {}
  /\ LET busy == \E q \in RunIds : InProgress(runs[q]) IN
       runs' = [q \in RunIds |->
                  IF q = r THEN [runs[q] EXCEPT !.pc = "source", !.overlapped = busy]
                  ELSE IF InProgress(runs[q]) THEN [runs[q] EXCEPT !.overlapped = TRUE]
                  ELSE runs[q]]
  /\ UNCHANGED <<propEdges, propOptions, propConfig, propResult, propPc, riskVars, auxVars>>
  /\ UNCHANGED sysVars

\* propagate resumes: the source node is stored and propagateBFS is called
RunSource(r) ==
  /\ runs[r].pc = "source"
  /\ LET eng == RunEngine
         sourceKey == NodeKey(propConfig.sourceType, propConfig.sourceId)
         run0 == [runs[r] EXCEPT
                    !.nodes = MapSet(@, sourceKey,
                       [id |-> propConfig.sourceId, type |-> propConfig.sourceType,
                        name |-> EntityName(eng.names, propConfig.sourceType,
                                            propConfig.sourceId),
                        impactScore |-> propConfig.initialImpact,
                        depth |-> 0, path |-> <<>>]),
                    !.order = <<sourceKey>>]
         s == Enter(eng, propConfig, [run |-> run0, visited |-> engVisited],
                    propConfig.sourceType, propConfig.sourceId,
                    propConfig.initialImpact, 0)
     IN /\ runs' = [runs EXCEPT ![r] = s.run]
        /\ engVisited' = s.visited
  /\ UNCHANGED <<propEdges, propOptions, propConfig, propResult, propPc, riskVars, auxVars>>
  /\ UNCHANGED sysVars

\* propagateBFS resumes after getEntityInfo for the target: the target node is
\* updated or stored and propagateBFS is called for it
RunTarget(r) ==
  /\ runs[r].pc = "target"
  /\ LET eng == RunEngine
         pd == runs[r].pending
         edge == pd.edge
         targetKey == NodeKey(edge.targetType, edge.targetId)
         run0 ==
           IF targetKey \in DOMAIN runs[r].nodes
           THEN [runs[r] EXCEPT
                   !.pending = <<>>,
                   !.nodes = [@ EXCEPT ![targetKey] =
                      [@ EXCEPT !.impactScore = RMax(@, pd.propagatedImpact),
                                !.path = Append(@, pd.pathEntry)]]]
           ELSE [runs[r] EXCEPT
                   !.pending = <<>>,
                   !.order = Append(@, targetKey),
                   !.nodes = MapSet(@, targetKey,
                      [id |-> edge.targetId, type |-> edge.targetType,
                       name |-> EntityName(eng.names, edge.targetType, edge.targetId),
                       impactScore |-> pd.propagatedImpact,
                       depth |-> pd.depth + 1,
                       path |-> <<pd.pathEntry>>])]
         s == Enter(eng, propConfig, [run |-> run0, visited |-> engVisited],
                    edge.targetType, edge.targetId, pd.propagatedImpact, pd.depth + 1)
     IN /\ runs' = [runs EXCEPT ![r] = s.run]
        /\ engVisited' = s.visited
  /\ UNCHANGED <<propEdges, propOptions, propConfig, propResult, propPc, riskVars, auxVars>>
  /\ UNCHANGED sysVars

InitRun ==
  /\ \E ps \in SUBSET RunEdgeUniverse :
        \E attr \in [ps -> RunEdgeAttrs] : propEdges = EdgeRows(ps, attr)
  /\ propOptions \in [maxDepth : RunDepths, impactThreshold : RunThresholds,
                       includeIndirect : {TRUE}]
  /\ propConfig = [sourceType |-> PNodes[1].type, sourceId |-> PNodes[1].id,
                   initialImpact |-> One]
  /\ propResult = NoResult
  /\ propPc = "idle"
  /\ NoRuns
  /\ NoRisk
  /\ NoAux
  /\ SysInit

NextRun ==
  \/ \E r \in RunIds : RunStart(r)
  \/ \E r \in RunIds : RunSource(r)
  \/ \E r \in RunIds : RunTarget(r)

SpecRun == InitRun /\ [][NextRun]_vars

\* every call that can take a step eventually takes one
SpecRunFair == SpecRun /\ WF_vars(NextRun)

RunsDone == \A r \in RunIds : runs[r].pc = "done"

\* the result of the call when it is made alone
AloneResult == propagate(RunEngine, propConfig)

\* ------------------------------------------------------------------------
\* Properties of the propagate calls (specifications SpecRun, SpecRunFair)
\* ------------------------------------------------------------------------

\* A -> B and B -> A, both Direct with weight 0.9
TwoNodeCycle ==
  propEdges = EdgeRows({<<1, 2>>, <<2, 1>>},
                       [p \in {<<1, 2>>, <<2, 1>>} |-> [w |-> <<9, 10>>, t |-> "Direct"]])

Alone(r) == runs[r].pc = "done" /\ ~runs[r].overlapped

\* C11: every propagate call returns, on every graph of the family (cycles,
\* threshold 0, edges into REGULATION nodes), and a call made alone on the
\* two-node cycle returns exactly 2 nodes and each of the 2 edges once.
C11_PropagateTerminates ==
  /\ <>RunsDone
  /\ [](\A r \in RunIds :
          (Alone(r) /\ TwoNodeCycle)
            => /\ Cardinality(DOMAIN runs[r].result.nodes) = 2
               /\ Len(runs[r].result.edges) = 2
               /\ runs[r].result.edges[1] # runs[r].result.edges[2])

\* a call made alone has returned from the two-node cycle with threshold 0,
\* having followed the edge back into the source
C11_Witness ==
  \E r \in RunIds :
    /\ Alone(r) /\ TwoNodeCycle
    /\ propOptions.impactThreshold = <<0, 1>> /\ propOptions.maxDepth = MaxRunDepth
    /\ Len(runs[r].result.edges) = 2
    /\ Len(runs[r].result.nodes[NodeKey("REGULATION", "r1")].path) = 1

\* C16: a propagate call returns the nodes and edges it returns when made
\* alone, whether or not another call on the same engine overlaps it.
C16_OverlappingRunsAgree ==
  \A r \in RunIds :
    runs[r].pc = "done"
      => /\ runs[r].result.nodes = AloneResult.nodes
         /\ runs[r].result.edges = AloneResult.edges

\* ------------------------------------------------------------------------
\* Further properties of a propagation result (specification SpecProp)
\* ------------------------------------------------------------------------

\* the edges the traversal may follow under the options
Traversable(options, e) ==
  /\ e.isActive
  /\ ~(e.impactType = "Indirect" /\ ~options.includeIndirect)
  /\ ~(e.impactType = "Conditional" /\ ~evaluateConditions(e.conditions))

\* the accumulated impacts with which `target` is reached from `key` (impact c)
\* along the paths of at most k edges that repeat no node, avoid `seen`, and
\* keep every step's impact >= the threshold
RECURSIVE PathScores(_, _, _, _, _, _, _)
PathScores(edges, options, key, c, k, seen, target) ==
  IF key = target THEN {c}
  ELSE IF k = 0 THEN {}
  ELSE UNION { PathScores(edges, options, TargetKeyOf(edges[i]), StepImpact(c, edges[i]),
                          k - 1, seen \cup {key}, target) :
               i \in {j \in DOMAIN edges :
                        /\ SourceKeyOf(edges[j]) = key
                        /\ Traversable(options, edges[j])
                        /\ TargetKeyOf(edges[j]) \notin seen \cup {key}
                        /\ ~RLess(StepImpact(c, edges[j]), options.impactThreshold)} }

\* the greatest element of a non-empty set of numbers
RSetMax(S) == CHOOSE x \in S : \A y \in S : RLeq(y, x)

\* C12: the score of every node other than the source is the greatest
\* accumulated impact over the surviving paths from the source within the
\* depth cap.
C12_ScoreIsBestSurvivingPath ==
  propPc = "done" =>
    \A k \in (DOMAIN propResult.nodes) \ {PropSourceKey} :
      LET scores == PathScores(propEdges, propOptions, PropSourceKey,
                               propConfig.initialImpact, propOptions.maxDepth, {}, k)
      IN scores # {} /\ propResult.nodes[k].impactScore = RSetMax(scores)

\* C13: result.edges is in breadth-first order: the depth of the source node
\* of an edge never decreases along the list, and the edges leaving one node
\* appear in the order of that node's adjacency list.
C13_EdgesBreadthFirst ==
  propPc = "done" =>
    \A i, j \in DOMAIN propResult.edges :
      i < j =>
        LET ei == propResult.edges[i]
            ej == propResult.edges[j]
            si == NodeKey(ei.sourceType, ei.sourceId)
            sj == NodeKey(ej.sourceType, ej.sourceId)
            pos(e) == CHOOSE n \in DOMAIN propEdges :
                        /\ SourceKeyOf(propEdges[n]) = NodeKey(e.sourceType, e.sourceId)
                        /\ TargetKeyOf(propEdges[n]) = NodeKey(e.targetType, e.targetId)
        IN /\ propResult.nodes[si].depth <= propResult.nodes[sj].depth
           /\ si = sj => pos(ei) < pos(ej)

\* ------------------------------------------------------------------------
\* Specification SpecCase: one propagate call on a chain of two edges out of
\* the source, the first of any impact type and with any condition object
\* ------------------------------------------------------------------------

Bool(b) == [t |-> "bool", v |-> b]

Num(n) == [t |-> "num", v |-> <<n, 1>>]

Str(x) == [t |-> "str", v |-> x]

\* the values of the keys of a condition object; Absent stands for no key
Absent == [t |-> "absent"]

RequiredValues == {Absent, Bool(TRUE), Bool(FALSE), Str("yes"), Num(1), Num(0)}

ThresholdValues == {Absent, Num(5), Num(0), Num(-1)}

\* the object { required: r, threshold: h } without the absent keys
CondObject(r, h) ==
  [k \in {x \in {"required", "threshold"} :
            (x = "required" /\ r # Absent) \/ (x = "threshold" /\ h # Absent)} |->
     IF k = "required" THEN r ELSE h]

CaseThresholds == {<<1, 100>>, <<2, 5>>}

CaseWeights == {<<1, 2>>, <<1, 1>>}

\* the first edge r1 -> x and the second edge x -> y
CaseEdges(x, y, w, ty, c) ==
  <<[EdgeRow(1, "tA", <<1, x>>, w, ty) EXCEPT !.conditions = c],
    EdgeRow(2, "tA", <<x, y>>, <<4, 5>>, "Direct")>>

InitCase ==
  /\ \E x \in 2..5, y \in 2..5, w \in CaseWeights, ty \in ImpactTypes,
        r \in RequiredValues, h \in ThresholdValues :
        /\ x # y
        /\ ty # "Conditional" => (r = Absent /\ h = Absent)
        /\ propEdges = CaseEdges(x, y, w, ty, CondObject(r, h))
  /\ propOptions \in [maxDepth : {DefaultMaxDepth}, impactThreshold : CaseThresholds,
                       includeIndirect : {TRUE}]
  /\ propConfig = [sourceType |-> PNodes[1].type, sourceId |-> PNodes[1].id,
                   initialImpact |-> One]
  /\ propResult = NoResult
  /\ propPc = "ready"
  /\ NoRuns
  /\ NoRisk
  /\ NoAux
  /\ SysInit

SpecCase == InitCase /\ [][NextProp]_vars

\* ------------------------------------------------------------------------
\* Properties of the two-edge chain (specification SpecCase)
\* ------------------------------------------------------------------------

CaseFirst == propEdges[1]

CaseSecond == propEdges[2]

\* the rule for a condition object c: `required` decides when the key is
\* present, else `threshold` when that key is present, else the edge passes
ConditionRule(c) ==
  IF "required" \in DOMAIN c THEN c["required"] = Bool(TRUE)
  ELSE IF "threshold" \in DOMAIN c
       THEN c["threshold"].t = "num" /\ RLess(<<0, 1>>, c["threshold"].v)
       ELSE TRUE

\* C14: a Conditional edge whose impact passes the threshold is traversed
\* exactly when its condition object satisfies the rule: key `required`
\* present => boolean true; else key `threshold` present => value > 0; else yes.
C14_ConditionalEdgeRule ==
  (/\ propPc = "done"
   /\ CaseFirst.impactType = "Conditional"
   /\ propOptions.impactThreshold = <<1, 100>>)
    => ((TargetKeyOf(CaseFirst) \in DOMAIN propResult.nodes)
          <=> ConditionRule(CaseFirst.conditions))

\* the multipliers and the weights of the formula
FormulaMultiplier(ty) ==
  CASE ty = "Direct" -> <<1, 1>>
    [] ty = "Indirect" -> <<3, 5>>
    [] ty = "Conditional" -> <<3, 10>>

FormulaSeverity(t) ==
  CASE t = "REGULATION" -> <<6, 5>>
    [] t = "DEPARTMENT" -> <<1, 1>>
    [] t = "BUDGET" -> <<9, 10>>
    [] t = "SERVICE" -> <<4, 5>>
    [] t = "KPI" -> <<7, 10>>

FormulaImpact(c, e) ==
  RMul(RMul(RMul(c, e.impactWeight), FormulaMultiplier(e.impactType)),
       FormulaSeverity(e.targetType))

\* R1 -> D1 (0.5, Direct) and D1 -> B1 (0.8, Direct)
ChainExample ==
  propEdges = CaseEdges(2, 3, <<1, 2>>, "Direct", EmptyMap)

NullSeverity == "null"

\* RISK_THRESHOLDS
RISK_THRESHOLDS(level) ==
  CASE level = "Critical" -> <<9, 10>>
    [] level = "High"     -> <<7, 10>>
    [] level = "Medium"   -> <<1, 2>>
    [] OTHER              -> <<3, 10>>

\* PropagationEngine.getRiskLevel
getRiskLevel(impactScore) ==
  IF RLeq(RISK_THRESHOLDS("Critical"), impactScore) THEN "Critical"
  ELSE IF RLeq(RISK_THRESHOLDS("High"), impactScore) THEN "High"
  ELSE IF RLeq(RISK_THRESHOLDS("Medium"), impactScore) THEN "Medium"
  ELSE "Low"

\* PropagationEngine.getInitialImpactFromSeverity
getInitialImpactFromSeverity(severity) ==
  CASE severity = "Critical" -> <<1, 1>>
    [] severity = "High"     -> <<4, 5>>
    [] severity = "Medium"   -> <<1, 2>>
    [] severity = "Low"      -> <<3, 10>>
    [] OTHER                 -> <<1, 2>>

\* RiskIndexCalculator.getSeverityMultiplier
getSeverityMultiplier(severity) ==
  CASE severity = "Critical" -> <<2, 1>>
    [] severity = "High"     -> <<3, 2>>
    [] severity = "Medium"   -> <<1, 1>>
    [] severity = "Low"      -> <<1, 2>>
    [] OTHER                 -> <<1, 1>>

\* Array.prototype.sort with the comparator (a, b) => key(b) - key(a), which
\* is stable: element i lands behind the elements with a larger key and behind
\* the earlier elements with the same key; key[i] is the key of s[i]
SortDescending(s, key) ==
  [k \in 1..Len(s) |->
     s[CHOOSE i \in 1..Len(s) :
         Cardinality({j \in 1..Len(s) :
                        \/ RLess(key[i], key[j])
                        \/ (key[j] = key[i] /\ j < i)}) = k - 1]]

\* a Map with its insertion order
EmptyOrderedMap == [order |-> <<>>, data |-> EmptyMap]

\* a propagate call whose config names the source regulation only: the
\* initial impact is config.initialImpact ?? 1.0, and config.maxDepth is not read
propagateRegulation(eng, regulationId) ==
  propagate(eng, [sourceType |-> "REGULATION", sourceId |-> regulationId,
                  initialImpact |-> One])

\* the body of result.nodes.forEach in calculateAllRisks, for one node
addRisk(entityRisks, key, node, regulation) ==
  LET er == IF key \in DOMAIN entityRisks.data THEN entityRisks
            ELSE [order |-> Append(entityRisks.order, key),
                  data  |-> MapSet(entityRisks.data, key,
                                   [totalRisk |-> Zero, factors |-> EmptyMap])]
  IN [er EXCEPT !.data[key] =
        [totalRisk |-> RAdd(@.totalRisk,
                            RMul(node.impactScore,
                                 getSeverityMultiplier(regulation.severity))),
         factors   |-> MapSet(@.factors, regulation.id, node.impactScore)]]

RECURSIVE addRisks(_, _, _, _)
addRisks(entityRisks, result, i, regulation) ==
  IF i > Len(result.order) THEN entityRisks
  ELSE CHOOSE next \in
         {addRisks(added, result, i + 1, regulation) :
            added \in {addRisk(entityRisks, result.order[i],
                               result.nodes[result.order[i]], regulation)}} :
         TRUE

\* the loop over the regulations in calculateAllRisks: a fresh engine with the
\* default options for each of them
RECURSIVE aggregateRisks(_, _, _, _, _)
aggregateRisks(entityRisks, regulations, i, edges, names) ==
  IF i > Len(regulations) THEN entityRisks
  ELSE LET engine == NewEngine(edges, names, DefaultOptions)
       IN CHOOSE next \in
            {aggregateRisks(added, regulations, i + 1, edges, names) :
               added \in {addRisks(entityRisks, result, 1, regulations[i]) :
                            result \in {propagateRegulation(engine, regulations[i].id)}}} :
            TRUE

\* db.regulation.findMany({where: {tenantId, status: "Active"}})
findActiveRegulations(rows) == SelectSeq(rows, LAMBDA r : r.status = "Active")

\* RiskIndexCalculator.calculateAllRisks
riskEntries(entityRisks, count) ==
  [k \in 1..Len(entityRisks.order) |->
     LET key  == entityRisks.order[k]
         data == entityRisks.data[key]
     IN [entityType        |-> key[1],
         entityId          |-> key[3],
         baseRiskScore     |-> RDiv(data.totalRisk, count),
         adjustedRiskScore |-> data.totalRisk,
         riskLevel         |-> getRiskLevel(RDiv(data.totalRisk, count)),
         riskFactors       |-> data.factors]]

byAdjustedRiskScore(results) ==
  CHOOSE sorted \in
    {SortDescending(results, key) :
       key \in {[k \in DOMAIN results |-> results[k].adjustedRiskScore]}} : TRUE

calculateAllRisks(rows, edges, names) ==
  CHOOSE sorted \in
    {byAdjustedRiskScore(results) :
       results \in
         {riskEntries(entityRisks, <<Len(regulations), 1>>) :
            regulations \in {findActiveRegulations(rows)},
            entityRisks \in
              {aggregateRisks(EmptyOrderedMap, findActiveRegulations(rows), 1,
                              edges, names)}}} : TRUE

\* the rankings of getDepartmentRiskRanking before the final sort: one per
\* DEPARTMENT entry of risks, in the order of the Map keyed by entityId; name
\* and code come from the department row, or are the id when there is none
departmentRankings(risks, names) ==
  LET departments == SelectSeq(risks, LAMBDA risk : risk.entityType = "DEPARTMENT")
  IN [k \in DOMAIN departments |->
        LET deptId == departments[k].entityId
            found  == NodeKey("DEPARTMENT", deptId) \in DOMAIN names
        IN [departmentId        |-> deptId,
            departmentName      |-> IF found THEN names[NodeKey("DEPARTMENT", deptId)]
                                    ELSE deptId,
            departmentCode      |-> IF found THEN "code" ELSE deptId,
            riskScore           |-> departments[k].adjustedRiskScore,
            riskLevel           |-> getRiskLevel(departments[k].adjustedRiskScore),
            affectedEntityCount |-> 1]]

\* RiskIndexCalculator.getDepartmentRiskRanking, given the list of
\* calculateAllRisks
getDepartmentRiskRanking(risks, names) ==
  CHOOSE sorted \in
    {SortDescending(rankings, key) :
       rankings \in {departmentRankings(risks, names)},
       key \in {[k \in DOMAIN departmentRankings(risks, names) |->
                   departmentRankings(risks, names)[k].riskScore]}} : TRUE

\* db.regulation.findMany of calculateStateBefore
findRegulationsBefore(rows, regulation, date) ==
  SelectSeq(rows, LAMBDA r : /\ r.effectiveDate < date
                             /\ r.id # regulation.id
                             /\ r.status = "Active")

\* the weight of an existing regulation's impact in the before state
BeforeWeight == <<1, 2>>

RECURSIVE addImpacts(_, _, _)
addImpacts(aggregatedImpact, result, i) ==
  IF i > Len(result.order) THEN aggregatedImpact
  ELSE LET key      == result.order[i]
           existing == IF key \in DOMAIN aggregatedImpact.data
                       THEN aggregatedImpact.data[key] ELSE Zero
           value    == RAdd(existing, RMul(result.nodes[key].impactScore, BeforeWeight))
           next     == [order |-> IF key \in DOMAIN aggregatedImpact.data
                                  THEN aggregatedImpact.order
                                  ELSE Append(aggregatedImpact.order, key),
                        data  |-> MapSet(aggregatedImpact.data, key, value)]
       IN CHOOSE out \in {addImpacts(n, result, i + 1) : n \in {next}} : TRUE

RECURSIVE aggregateImpacts(_, _, _, _)
aggregateImpacts(aggregatedImpact, existingRegulations, i, eng) ==
  IF i > Len(existingRegulations) THEN aggregatedImpact
  ELSE CHOOSE next \in
         {aggregateImpacts(added, existingRegulations, i + 1, eng) :
            added \in {addImpacts(aggregatedImpact, result, 1) :
                         result \in {propagateRegulation(eng, existingRegulations[i].id)}}} :
         TRUE

\* TimelineSimulationEngine.calculateStateBefore
calculateStateBefore(rows, eng, regulation, date) ==
  CHOOSE state \in
    {[timestamp       |-> date,
      entityImpacts   |-> aggregateImpacts(EmptyOrderedMap, existingRegulations, 1, eng),
      regulationCount |-> Len(existingRegulations)] :
       existingRegulations \in {findRegulationsBefore(rows, regulation, date)}} : TRUE

\* TimelineSimulationEngine.calculateStateAfter
calculateStateAfter(eng, regulation, date) ==
  CHOOSE state \in
    {[timestamp       |-> date,
      entityImpacts   |-> [order |-> result.order,
                           data  |-> [k \in DOMAIN result.nodes |->
                                        result.nodes[k].impactScore]],
      regulationCount |-> 1] :
       result \in {propagateRegulation(eng, regulation.id)}} : TRUE

\* new Set([...before.keys(), ...after.keys()]) in insertion order
RECURSIVE appendNew(_, _, _)
appendNew(keys, more, i) ==
  IF i > Len(more) THEN keys
  ELSE appendNew(IF \E j \in 1..Len(keys) : keys[j] = more[i]
                 THEN keys ELSE Append(keys, more[i]),
                 more, i + 1)

\* the smallest change that is reported
DeltaFloor == <<1, 100>>

DeltaReported_Always(delta) == TRUE

\* Math.abs(delta) > 0.01
DeltaReported(delta) == RLess(DeltaFloor, RAbs(delta))

Hundred == <<100, 1>>

\* the delta of one key in calculateDeltas
deltaOf(before, after, key) ==
  LET beforeValue == IF key \in DOMAIN before.entityImpacts.data
                     THEN before.entityImpacts.data[key] ELSE Zero
      afterValue  == IF key \in DOMAIN after.entityImpacts.data
                     THEN after.entityImpacts.data[key] ELSE Zero
      delta       == RSub(afterValue, beforeValue)
  IN [entityKey     |-> key,
      beforeValue   |-> beforeValue,
      afterValue    |-> afterValue,
      delta         |-> delta,
      percentChange |-> IF beforeValue # Zero
                        THEN RMul(RDiv(delta, beforeValue), Hundred)
                        ELSE Hundred]

\* TimelineSimulationEngine.calculateDeltas
byAbsoluteDelta(deltas) ==
  CHOOSE sorted \in
    {SortDescending(deltas, key) :
       key \in {[k \in DOMAIN deltas |-> RAbs(deltas[k].delta)]}} : TRUE

calculateDeltas(before, after) ==
  CHOOSE sorted \in
    {byAbsoluteDelta(SelectSeq(all, LAMBDA d : DeltaReported(d.delta))) :
       all \in {[k \in 1..Len(allKeys) |-> deltaOf(before, after, allKeys[k])] :
                 allKeys \in {appendNew(before.entityImpacts.order,
                                        after.entityImpacts.order, 1)}}} : TRUE

\* db.regulation.findUnique({where: {id}}): the rows with that id
findRegulation(rows, regulationId) == SelectSeq(rows, LAMBDA r : r.id = regulationId)

\* TimelineSimulationEngine.compareImpact, which throws when the regulation
\* does not exist; the engine of the constructor serves every propagation
compareImpact(rows, edges, names, regulationId, beforeDate, afterDate) ==
  LET eng   == NewEngine(edges, names, DefaultOptions)
      found == findRegulation(rows, regulationId)
  IN IF found = <<>> THEN [error |-> "Regulation not found"]
     ELSE CHOOSE out \in
            {[regulationId |-> regulationId,
              beforeDate   |-> beforeDate,
              afterDate    |-> afterDate,
              beforeState  |-> beforeState,
              afterState   |-> afterState,
              deltas       |-> calculateDeltas(beforeState, afterState)] :
               beforeState \in {calculateStateBefore(rows, eng, found[1], beforeDate)},
               afterState  \in {calculateStateAfter(eng, found[1], afterDate)}} : TRUE

\* ------------------------------------------------------------------------
\* Specification of the risk calculations: two regulations r1 and r3 of one
\* tenant over a bounded family of graphs, the DELETE route of a regulation,
\* calculateAllRisks and compareImpact
\* ------------------------------------------------------------------------

RiskRegIds == <<PNodes[1].id, PNodes[6].id>>

RiskSeverities == <<{"Critical", "High"}, {"Medium", NullSeverity}>>

RiskStatuses == {"Active", "Draft"}

EffectiveDates == {1, 3}

BeforeDates == {2}

AfterDates == {4}

\* the ids a comparison is asked for: the two regulations and an unknown one
CompareIds == {PNodes[1].id, PNodes[6].id, "r9"}

\* the edges a graph may hold, with the weights each may carry
RiskEdgeWeights ==
  [p \in {<<1, 2>>, <<6, 2>>, <<2, 3>>, <<6, 1>>} |->
     CASE p = <<1, 2>> -> {<<1, 1>>, <<1, 2>>, <<1, 100>>}
       [] p = <<6, 2>> -> {<<1, 1>>}
       [] p = <<2, 3>> -> {<<1, 2>>}
       [] p = <<6, 1>> -> {<<1, 1>>}]

RECURSIVE RiskEdgeRows(_, _)
RiskEdgeRows(ps, w) ==
  IF ps = {} THEN <<>>
  ELSE LET p == CHOOSE x \in ps : \A y \in ps : x[1] * 10 + x[2] <= y[1] * 10 + y[2]
       IN <<EdgeRow(p, "tA", p, w[p], "Direct")>> \o RiskEdgeRows(ps \ {p}, w)

\* a chain of six Direct edges of weight 1.0 from r1 through r3 to d3
RiskChainPairs == {<<1, 2>>, <<2, 3>>, <<3, 4>>, <<4, 5>>, <<5, 6>>, <<6, 7>>}

RiskChain == RiskEdgeRows(RiskChainPairs, [p \in RiskChainPairs |-> One])

RegulationRow(i, severity, status, effectiveDate) ==
  [id |-> RiskRegIds[i], severity |-> severity, status |-> status,
   isActive |-> TRUE, effectiveDate |-> effectiveDate]

InitRisk ==
  /\ \E s1 \in RiskSeverities[1], s2 \in RiskSeverities[2],
        st1 \in RiskStatuses,
        e1 \in EffectiveDates, e2 \in EffectiveDates :
        regs = <<RegulationRow(1, s1, st1, e1), RegulationRow(2, s2, "Active", e2)>>
  /\ \/ \E ps \in SUBSET DOMAIN RiskEdgeWeights :
           \E w \in [ps -> UNION {RiskEdgeWeights[p] : p \in DOMAIN RiskEdgeWeights}] :
              /\ \A p \in ps : w[p] \in RiskEdgeWeights[p]
              /\ propEdges = RiskEdgeRows(ps, w)
     \/ propEdges = RiskChain
  /\ riskResults = NoResult
  /\ comparison = NoResult
  /\ NoAux
  /\ propOptions = DefaultOptions
  /\ propConfig = [sourceType |-> PNodes[1].type, sourceId |-> PNodes[1].id,
                   initialImpact |-> One]
  /\ propResult = NoResult
  /\ propPc = "ready"
  /\ NoRuns
  /\ SysInit

\* DELETE /regulations/[id]: the row is found, its isActive flag is cleared
\* (status is left as it is) and the cache is invalidated
RegulationDelete(i) ==
  /\ i \in DOMAIN regs
  /\ regs' = [regs EXCEPT ![i].isActive = FALSE]
  /\ cache' = invalidateRegulation(cache, "tA", regs[i].id)
  /\ UNCHANGED <<riskResults, comparison>>
  /\ UNCHANGED <<propEdges, propOptions, propConfig, propResult, propPc, runs, engVisited>>
  /\ UNCHANGED auxVars
  /\ UNCHANGED <<dbEdges, dbEntities, procs, commits, acked, started>>

\* new RiskIndexCalculator(tenant).calculateAllRisks()
CalculateAllRisks ==
  /\ riskResults' = [results |-> calculateAllRisks(regs, propEdges, PNames)]
  /\ UNCHANGED <<regs, comparison>>
  /\ UNCHANGED <<propEdges, propOptions, propConfig, propResult, propPc, runs, engVisited>>
  /\ UNCHANGED auxVars
  /\ UNCHANGED sysVars

\* new RiskIndexCalculator(tenant).getDepartmentRiskRanking(); the list of
\* calculateAllRisks it worked from is kept beside the ranking
GetDepartmentRiskRanking ==
  /\ riskResults' =
       CHOOSE out \in
         {[results |-> risks, ranking |-> getDepartmentRiskRanking(risks, PNames)] :
            risks \in {calculateAllRisks(regs, propEdges, PNames)}} : TRUE
  /\ UNCHANGED <<regs, comparison>>
  /\ UNCHANGED <<propEdges, propOptions, propConfig, propResult, propPc, runs, engVisited>>
  /\ UNCHANGED auxVars
  /\ UNCHANGED sysVars

\* new TimelineSimulationEngine(tenant).compareImpact(id, beforeDate, afterDate)
CompareImpact(id, beforeDate, afterDate) ==
  /\ comparison' = compareImpact(regs, propEdges, PNames, id, beforeDate, afterDate)
  /\ UNCHANGED <<regs, riskResults>>
  /\ UNCHANGED <<propEdges, propOptions, propConfig, propResult, propPc, runs, engVisited>>
  /\ UNCHANGED auxVars
  /\ UNCHANGED sysVars

NextRisk ==
  \/ \E i \in 1..2 : RegulationDelete(i)
  \/ CalculateAllRisks
  \/ GetDepartmentRiskRanking
  \/ \E id \in CompareIds, b \in BeforeDates, a \in AfterDates : CompareImpact(id, b, a)

SpecRisk == InitRisk /\ [][NextRisk]_vars

\* ------------------------------------------------------------------------
\* Properties of the risk calculations (specification SpecRisk)
\* ------------------------------------------------------------------------

\* the entries of the last calculation for one entity
RiskEntries(type, id) ==
  {k \in DOMAIN riskResults.results :
     riskResults.results[k].entityType = type /\ riskResults.results[k].entityId = id}

\* the regulations that are active: the active flag is set and the status is Active
IsActiveRegulation(r) == r.isActive /\ r.status = "Active"

\* the worked example: r1 Critical and r3 Medium, both active, each with one
\* Direct edge of weight 1.0 to department d1 and no other edge
RiskExample ==
  /\ regs[1].severity = "Critical" /\ regs[2].severity = "Medium"
  /\ \A i \in DOMAIN regs : IsActiveRegulation(regs[i])
  /\ propEdges = RiskEdgeRows({<<1, 2>>, <<6, 2>>}, [p \in {<<1, 2>>, <<6, 2>>} |-> One])

\* C17: calculateAllRisks seeds the propagation of every active regulation
\* with the initial impact of its severity (Critical 1.0, High 0.8, Medium 0.5,
\* Low 0.3, otherwise 0.5), so the regulation's own node carries that seed as
\* its factor; in the worked example department d1 has the factors 1.0 and
\* 0.5, adjustedRiskScore 2.5, baseRiskScore 1.25 and riskLevel Critical.
C17_SeededBySeverity ==
  riskResults # NoResult =>
    /\ \A i \in DOMAIN regs :
         IsActiveRegulation(regs[i]) =>
           \A k \in RiskEntries("REGULATION", regs[i].id) :
              riskResults.results[k].riskFactors[regs[i].id] =
                getInitialImpactFromSeverity(regs[i].severity)
    /\ RiskExample =>
         \E k \in RiskEntries(PNodes[2].type, PNodes[2].id) :
            /\ riskResults.results[k].riskFactors = (regs[1].id :> One) @@ (regs[2].id :> <<1, 2>>)
            /\ riskResults.results[k].adjustedRiskScore = <<5, 2>>
            /\ riskResults.results[k].baseRiskScore = <<5, 4>>
            /\ riskResults.results[k].riskLevel = "Critical"

\* the nodes a regulation's propagation reaches, with the default engine
ReachedBy(regulationId) ==
  propagateRegulation(NewEngine(propEdges, PNames, DefaultOptions), regulationId).nodes

\* severityMultiplier[severity] as the specification tabulates it
severityMultiplier(severity) ==
  CASE severity = "Critical" -> <<2, 1>>
    [] severity = "High"     -> <<3, 2>>
    [] severity = "Medium"   -> <<1, 1>>
    [] severity = "Low"      -> <<1, 2>>
    [] OTHER                 -> <<1, 1>>

\* impactToRiskLevel as the specification tabulates it
impactToRiskLevel(score) ==
  IF ~RLess(score, <<9, 10>>) THEN "Critical"
  ELSE IF ~RLess(score, <<7, 10>>) THEN "High"
  ELSE IF ~RLess(score, <<1, 2>>) THEN "Medium"
  ELSE "Low"

RECURSIVE RSum(_)
RSum(seq) == IF seq = <<>> THEN Zero ELSE RAdd(seq[1], RSum(Tail(seq)))

\* the active regulations of rows whose propagation reaches the node key
ActiveReaching(rows, key) ==
  SelectSeq(rows, LAMBDA r : IsActiveRegulation(r) /\ key \in DOMAIN ReachedBy(r.id))

\* the sum over those regulations of node score times severity multiplier
ExpectedAdjusted(rows, key) ==
  LET reaching == ActiveReaching(rows, key)
  IN RSum([i \in 1..Len(reaching) |->
             RMul(ReachedBy(reaching[i].id)[key].impactScore,
                  severityMultiplier(reaching[i].severity))])

ActiveCount(rows) == Len(SelectSeq(rows, IsActiveRegulation))

EntryKey(entry) == NodeKey(entry.entityType, entry.entityId)

\* what C18 states of a list of entries computed from the regulation rows
RiskEntriesAsSpecified(rows, results) ==
  /\ \A k \in DOMAIN results :
       /\ results[k].adjustedRiskScore = ExpectedAdjusted(rows, EntryKey(results[k]))
       /\ ActiveCount(rows) > 0
       /\ results[k].baseRiskScore =
            RDiv(results[k].adjustedRiskScore, <<ActiveCount(rows), 1>>)
       /\ results[k].riskLevel = impactToRiskLevel(results[k].baseRiskScore)
  /\ \A j, k \in DOMAIN results : EntryKey(results[j]) = EntryKey(results[k]) => j = k
  /\ {EntryKey(results[k]) : k \in DOMAIN results} =
       UNION {DOMAIN ReachedBy(rows[i].id) :
                i \in {n \in DOMAIN rows : IsActiveRegulation(rows[n])}}
  /\ \A j, k \in DOMAIN results :
       j < k => RLeq(results[k].adjustedRiskScore, results[j].adjustedRiskScore)

\* a step that leaves the regulation rows alone and produces a new list of
\* risk entries: a calculateAllRisks call
RiskCalculated == regs' = regs /\ riskResults' # riskResults

\* C18: for every entry returned by calculateAllRisks, adjustedRiskScore is
\* the sum over the active regulations reaching the node of node score times
\* severity multiplier, baseRiskScore is adjustedRiskScore divided by the
\* number of active regulations, riskLevel is impactToRiskLevel(baseRiskScore),
\* there is one entry per distinct node key, and the list is sorted by
\* adjustedRiskScore descending.
C18_RiskEntries ==
  [][RiskCalculated => RiskEntriesAsSpecified(regs', riskResults'.results)]_vars

\* no regulation of rows that is not active has a factor in any entry
NoInactiveFactor(rows, results) ==
  \A i \in DOMAIN rows :
     ~IsActiveRegulation(rows[i]) =>
        \A k \in DOMAIN results : rows[i].id \notin DOMAIN results[k].riskFactors

\* C19: calculateAllRisks enumerates only active regulations: a regulation
\* that was soft-deleted through the DELETE route, or whose status is not
\* Active, appears in no riskFactors mapping of a later calculateAllRisks.
C19_OnlyActiveRegulations ==
  [][RiskCalculated => NoInactiveFactor(regs', riskResults'.results)]_vars

\* a comparison was made and did not throw
Compared == "deltas" \in DOMAIN comparison

BeforeMap == comparison.beforeState.entityImpacts.data

AfterMap == comparison.afterState.entityImpacts.data

\* the value of a key in a map of impacts, a missing value counting as 0
ValueOr0(map, key) == IF key \in DOMAIN map THEN map[key] ELSE Zero

\* the other regulations with status Active that took effect before beforeDate
OthersBefore ==
  SelectSeq(regs, LAMBDA r : /\ r.id # comparison.regulationId
                             /\ r.status = "Active"
                             /\ r.effectiveDate < comparison.beforeDate)

\* 0.5 times the node score, summed over those regulations
ExpectedBefore(key) ==
  LET reaching == SelectSeq(OthersBefore, LAMBDA r : key \in DOMAIN ReachedBy(r.id))
  IN RSum([i \in 1..Len(reaching) |->
             RMul(<<1, 2>>, ReachedBy(reaching[i].id)[key].impactScore)])

DeltaEntries(key) ==
  {k \in DOMAIN comparison.deltas : comparison.deltas[k].entityKey = key}

\* C20: the deltas of compareImpact hold, for every node key of the before or
\* the after map (a missing value counting as 0), an entry with delta = after -
\* before exactly when |delta| > 0.01, with percentChange = delta / before x 100
\* when before is not 0 and 100 otherwise, sorted by |delta| descending; the
\* before map sums 0.5 x node score over every other Active regulation with
\* effectiveDate < beforeDate and never holds the target's own propagation.
C20_CompareImpactDeltas ==
  Compared =>
    /\ \A key \in DOMAIN BeforeMap \cup DOMAIN AfterMap :
         LET b == ValueOr0(BeforeMap, key)
             a == ValueOr0(AfterMap, key)
             d == RSub(a, b)
         IN IF RLess(<<1, 100>>, RAbs(d))
            THEN /\ Cardinality(DeltaEntries(key)) = 1
                 /\ \A k \in DeltaEntries(key) :
                      /\ comparison.deltas[k].beforeValue = b
                      /\ comparison.deltas[k].afterValue = a
                      /\ comparison.deltas[k].delta = d
                      /\ comparison.deltas[k].percentChange =
                           IF b # Zero THEN RMul(RDiv(d, b), <<100, 1>>) ELSE <<100, 1>>
            ELSE DeltaEntries(key) = {}
    /\ \A k \in DOMAIN comparison.deltas :
         comparison.deltas[k].entityKey \in DOMAIN BeforeMap \cup DOMAIN AfterMap
    /\ \A j, k \in DOMAIN comparison.deltas :
         j < k => RLeq(RAbs(comparison.deltas[k].delta), RAbs(comparison.deltas[j].delta))
    /\ DOMAIN BeforeMap =
         UNION {DOMAIN ReachedBy(OthersBefore[i].id) : i \in DOMAIN OthersBefore}
    /\ \A key \in DOMAIN BeforeMap : BeforeMap[key] = ExpectedBefore(key)
    /\ AfterMap = [key \in DOMAIN ReachedBy(comparison.regulationId) |->
                     ReachedBy(comparison.regulationId)[key].impactScore]

\* a comparison with a key left out for its small delta, a falling entry whose
\* before value is not 0 and a rising entry whose before value is 0, while the
\* target regulation itself is Active and took effect before beforeDate
C20_Witness ==
  /\ Compared
  /\ \E key \in DOMAIN BeforeMap \cup DOMAIN AfterMap : DeltaEntries(key) = {}
  /\ \E k \in DOMAIN comparison.deltas :
        /\ comparison.deltas[k].beforeValue # Zero
        /\ comparison.deltas[k].delta[1] < 0
  /\ \E k \in DOMAIN comparison.deltas : comparison.deltas[k].beforeValue = Zero
  /\ \E i \in DOMAIN regs :
        /\ regs[i].id = comparison.regulationId
        /\ regs[i].status = "Active"
        /\ regs[i].effectiveDate < comparison.beforeDate

\* the depth cap the comparison asks for in the config of its propagations
ComparisonDepthCap == 5

\* the nodes within the depth cap of a regulation: what an engine capped at
\* that depth reaches
WithinCap(regulationId) ==
  DOMAIN propagateRegulation(
           NewEngine(propEdges, PNames,
                     [DefaultOptions EXCEPT !.maxDepth = ComparisonDepthCap]),
           regulationId).nodes

\* C21: the before-state and the after-state propagations of compareImpact
\* run with depth cap 5: a key of afterState.entityImpacts lies within depth 5
\* of the target regulation, and a key of beforeState.entityImpacts within
\* depth 5 of one of the regulations aggregated into it.
C21_ComparisonDepthCap ==
  Compared =>
    /\ DOMAIN AfterMap \subseteq WithinCap(comparison.regulationId)
    /\ DOMAIN BeforeMap \subseteq
         UNION {WithinCap(OthersBefore[i].id) : i \in DOMAIN OthersBefore}

\* ------------------------------------------------------------------------
\* The simulation route: POST /simulation and runSimulation.  A store call
\* either returns or raises; a handler is suspended at each awaited call.
\* ------------------------------------------------------------------------

SimulationTypes == {"Comparison", "WhatIf"}

\* the regulationId of a request; the empty string stands for none given
SimRegulationIds == {PNodes[1].id, "r9", ""}

\* error.message of a store call that raised
StoreErrorMessage == "store error"

SimBaselineDate == 2

SimTargetDate == 4

\* the graphs and regulation rows of the requests
SimEdgePairs == {<<1, 2>>, <<6, 2>>}

IdleSim ==
  [pc |-> "idle", row |-> NoResult, params |-> NoResult, results |-> NoResult,
   message |-> "", failed |-> FALSE, response |-> 0]

InitSim ==
  /\ \E st2 \in RiskStatuses :
        regs = <<RegulationRow(1, "Critical", "Active", 3),
                 RegulationRow(2, "Medium", st2, 1)>>
  /\ \E ps \in SUBSET SimEdgePairs : propEdges = RiskEdgeRows(ps, [p \in ps |-> One])
  /\ \E ty \in SimulationTypes, id \in SimRegulationIds :
        sim = [IdleSim EXCEPT !.params = [simulationType |-> ty, regulationId |-> id]]
  /\ mc = NoResult
  /\ impacts = NoResult
  /\ riskResults = NoResult
  /\ comparison = NoResult
  /\ propOptions = DefaultOptions
  /\ propConfig = [sourceType |-> PNodes[1].type, sourceId |-> PNodes[1].id,
                   initialImpact |-> One]
  /\ propResult = NoResult
  /\ propPc = "ready"
  /\ NoRuns
  /\ SysInit

SimFrame ==
  /\ UNCHANGED <<propEdges, propOptions, propConfig, propResult, propPc, runs, engVisited>>
  /\ UNCHANGED <<regs, riskResults, comparison, mc, impacts>>
  /\ UNCHANGED sysVars

\* runSimulation's catch block is entered with the error of the failed step
SimThrow(message) ==
  sim' = [sim EXCEPT !.pc = "catch", !.message = message, !.failed = TRUE]

\* POST: db.simulation.create, db.auditLog.create, then runSimulation is
\* started without being awaited and 201 is returned; a raising store call
\* gives 500 and the run is never started
SimPost(fault) ==
  /\ sim.pc = "idle"
  /\ sim' = CASE fault = "create" -> [sim EXCEPT !.pc = "done", !.response = 500]
              [] fault = "audit"  ->
                   [sim EXCEPT !.pc = "done", !.response = 500,
                               !.row = [status |-> "Pending", results |-> NoResult,
                                        completedAt |-> FALSE]]
              [] OTHER ->
                   [sim EXCEPT !.pc = "run", !.response = 201,
                               !.row = [status |-> "Pending", results |-> NoResult,
                                        completedAt |-> FALSE]]
  /\ SimFrame

\* db.simulation.update({status: "Running"})
SimRunning(ok) ==
  /\ sim.pc = "run"
  /\ IF ok THEN sim' = [sim EXCEPT !.pc = "compute", !.row.status = "Running"]
           ELSE SimThrow(StoreErrorMessage)
  /\ SimFrame

\* the results object of a Comparison run
comparisonResults(c) ==
  [deltas      |-> c.deltas,
   beforeState |-> [regulationCount     |-> c.beforeState.regulationCount,
                    impactedEntityCount |->
                      Cardinality(DOMAIN c.beforeState.entityImpacts.data)],
   afterState  |-> [regulationCount     |-> c.afterState.regulationCount,
                    impactedEntityCount |->
                      Cardinality(DOMAIN c.afterState.entityImpacts.data)]]

\* the results object of a what-if run, with the default assumptions
whatIfResults(rows, regulationId) ==
  LET found == IF regulationId # "" THEN findRegulation(rows, regulationId) ELSE <<>>
  IN [type        |-> "WhatIf",
      assumptions |-> [weight |-> One, severity |-> "Medium",
                       baselineDate |-> SimBaselineDate, targetDate |-> SimTargetDate],
      regulation  |-> IF found # <<>> THEN [id |-> found[1].id] ELSE NoResult]

\* the branch on the simulation type: compareImpact or the what-if lookup;
\* ok tells whether every store read of it returned
SimCompute(ok) ==
  /\ sim.pc = "compute"
  /\ IF ~ok THEN SimThrow(StoreErrorMessage)
     ELSE IF sim.params.simulationType = "Comparison" /\ sim.params.regulationId # ""
     THEN \E c \in {compareImpact(regs, propEdges, PNames, sim.params.regulationId,
                                  SimBaselineDate, SimTargetDate)} :
             IF "error" \in DOMAIN c THEN SimThrow(c.error)
             ELSE sim' = [sim EXCEPT !.pc = "complete", !.results = comparisonResults(c)]
     ELSE sim' = [sim EXCEPT !.pc = "complete",
                             !.results = whatIfResults(regs, sim.params.regulationId)]
  /\ SimFrame

\* db.simulation.update({status: "Completed", results, completedAt})
SimComplete(ok) ==
  /\ sim.pc = "complete"
  /\ IF ok THEN sim' = [sim EXCEPT !.pc = "audit",
                                   !.row = [status |-> "Completed", results |-> sim.results,
                                            completedAt |-> TRUE]]
           ELSE SimThrow(StoreErrorMessage)
  /\ SimFrame

\* db.auditLog.create of the run
SimAudit(ok) ==
  /\ sim.pc = "audit"
  /\ IF ok THEN sim' = [sim EXCEPT !.pc = "done"] ELSE SimThrow(StoreErrorMessage)
  /\ SimFrame

\* the catch block: db.simulation.update({status: "Failed", results: {error}});
\* when that update raises too, runSimulation rejects and the error is logged
SimCatch(ok) ==
  /\ sim.pc = "catch"
  /\ IF ok THEN sim' = [sim EXCEPT !.pc = "done", !.row.status = "Failed",
                                   !.row.results = [error |-> sim.message]]
           ELSE sim' = [sim EXCEPT !.pc = "done"]
  /\ SimFrame

NextSim ==
  \/ \E fault \in {"none", "create", "audit"} : SimPost(fault)
  \/ \E ok \in BOOLEAN : SimRunning(ok)
  \/ \E ok \in BOOLEAN : SimCompute(ok)
  \/ \E ok \in BOOLEAN : SimComplete(ok)
  \/ \E ok \in BOOLEAN : SimAudit(ok)
  \/ \E ok \in BOOLEAN : SimCatch(ok)

SpecSim == InitSim /\ [][NextSim]_vars

\* ------------------------------------------------------------------------
\* Properties of a simulation run (specification SpecSim)
\* ------------------------------------------------------------------------

\* C22: when a step of a simulation run has failed (compareImpact signalling
\* 'Regulation not found', or a store read or write raising), the run ends
\* with the simulation row in status Failed holding the error message as its
\* results; the row is not left Pending or Running and does not end Completed.
C22_FailedRunEndsFailed ==
  (sim.pc = "done" /\ sim.failed) =>
     /\ sim.row.status = "Failed"
     /\ sim.row.results = [error |-> sim.message]

\* the simulation row exists before and after the step
RowKept == sim.pc \notin {"idle"} /\ sim.row # NoResult /\ sim'.row # NoResult

\* the status changes a run may make
SimStatusMoves ==
  {<<"Pending", "Running">>, <<"Running", "Completed">>,
   <<"Pending", "Failed">>, <<"Running", "Failed">>}

\* C38: the status of a simulation row only moves Pending -> Running ->
\* Completed or Pending/Running -> Failed; Completed and Failed are terminal:
\* once the row is written Completed with its results, no later step of the
\* run changes its status or overwrites its results.
C38_StatusMovesForward ==
  [][RowKept =>
        /\ sim'.row.status # sim.row.status =>
              <<sim.row.status, sim'.row.status>> \in SimStatusMoves
        /\ sim.row.status \in {"Completed", "Failed"} =>
              sim'.row.results = sim.row.results
    ]_vars

\* ------------------------------------------------------------------------
\* MemoryCache in full: expiry, statistics and invalidation callbacks.  A
\* cache value m has the fields of the class (cache, with order holding the
\* iteration order of the Map, stats, invalidationCallbacks) and now, the
\* value Date.now() returns.  An operation yields [m, ret, calls]: the cache
\* after it, what it returned, and the callback calls it made, in order.
\* ------------------------------------------------------------------------

\* null, returned by get on a miss; cached values are strings
NullValue == "null"

NewMemoryCache ==
  [cache |-> EmptyMap, order |-> <<>>,
   stats |-> [hits |-> 0, misses |-> 0, evictions |-> 0, size |-> 0],
   invalidationCallbacks |-> <<>>, cleanupInterval |-> TRUE, now |-> 0]

Remove(seq, x) == SelectSeq(seq, LAMBDA y : y # x)

\* this.cache.delete(fullKey)
mapDelete(m, fullKey) ==
  [m EXCEPT !.cache = MapDel(@, {fullKey}), !.order = Remove(@, fullKey)]

\* this.stats.size = this.cache.size
withSize(m) == [m EXCEPT !.stats.size = Cardinality(DOMAIN m.cache)]

Expired_Never(now, entry) == FALSE

\* Date.now() > entry.expiresAt
Expired(now, entry) == now > entry.expiresAt

\* MemoryCache.set
mcSet(m, tenantId, key, data, ttl, tags) ==
  LET fullKey == generateKey(tenantId, key)
      entry   == [data |-> data, expiresAt |-> m.now + ttl, createdAt |-> m.now,
                  version |-> 1, tags |-> <<tenantId>> \o tags]
  IN [m     |-> withSize([m EXCEPT !.cache = MapSet(@, fullKey, entry),
                                   !.order = IF fullKey \in DOMAIN m.cache THEN @
                                             ELSE Append(@, fullKey)]),
      ret   |-> NullValue,
      calls |-> <<>>]

\* MemoryCache.get
mcGet(m, tenantId, key) ==
  LET fullKey == generateKey(tenantId, key)
  IN IF fullKey \notin DOMAIN m.cache
     THEN [m |-> [m EXCEPT !.stats.misses = @ + 1], ret |-> NullValue, calls |-> <<>>]
     ELSE IF Expired(m.now, m.cache[fullKey])
     THEN [m     |-> withSize([mapDelete(m, fullKey) EXCEPT !.stats.misses = @ + 1,
                                                           !.stats.evictions = @ + 1]),
           ret   |-> NullValue,
           calls |-> <<>>]
     ELSE [m |-> [m EXCEPT !.stats.hits = @ + 1], ret |-> m.cache[fullKey].data,
           calls |-> <<>>]

\* MemoryCache.has
mcHas(m, tenantId, key) ==
  [mcGet(m, tenantId, key) EXCEPT !.ret = (@ # NullValue)]

\* the behaviours of a callback: it returns, it throws, or it calls the
\* unregister function it was given at registration and returns
CallbackKinds == {"returns", "throws", "unregisters"}

\* the unregister function returned by onInvalidation: indexOf and splice
unregister(callbacks, callback) ==
  IF \E i \in DOMAIN callbacks : callbacks[i] = callback
  THEN LET index == CHOOSE i \in DOMAIN callbacks :
                       callbacks[i] = callback /\ \A j \in 1..(i - 1) : callbacks[j] # callback
       IN SubSeq(callbacks, 1, index - 1) \o SubSeq(callbacks, index + 1, Len(callbacks))
  ELSE callbacks

\* MemoryCache.notifyInvalidation: forEach visits the indices in order and
\* looks each one up in the array as it is at that moment; an exception of
\* a callback is caught and logged.  st is [callbacks, calls].
RECURSIVE notifyInvalidation(_, _, _, _)
notifyInvalidation(st, i, key, tags) ==
  IF i > Len(st.callbacks) THEN st
  ELSE LET callback == st.callbacks[i]
       IN notifyInvalidation(
            [callbacks |-> IF callback = "unregisters"
                           THEN unregister(st.callbacks, callback) ELSE st.callbacks,
             calls     |-> Append(st.calls, [callback |-> callback, key |-> key,
                                             tags |-> tags])],
            i + 1, key, tags)

\* one round of keysToDelete.forEach in the invalidate methods; out is [m, calls]
RECURSIVE deleteKeys(_, _, _)
deleteKeys(out, keysToDelete, i) ==
  IF i > Len(keysToDelete) THEN out
  ELSE LET key   == keysToDelete[i]
           entry == out.m.cache[key]
           told  == notifyInvalidation(
                      [callbacks |-> out.m.invalidationCallbacks, calls |-> out.calls],
                      1, key, entry.tags)
       IN deleteKeys([m     |-> [mapDelete(out.m, key) EXCEPT
                                   !.invalidationCallbacks = told.callbacks],
                      calls |-> told.calls],
                     keysToDelete, i + 1)

\* the common tail of invalidateTenant, invalidateByTag and invalidateByTags
invalidateKeys(m, keysToDelete) ==
  LET out == deleteKeys([m |-> m, calls |-> <<>>], keysToDelete, 1)
  IN [m     |-> withSize([out.m EXCEPT !.stats.evictions = @ + Len(keysToDelete)]),
      ret   |-> Len(keysToDelete),
      calls |-> out.calls]

\* MemoryCache.invalidateTenant
mcInvalidateTenant(m, tenantId) ==
  invalidateKeys(m, SelectSeq(m.order, LAMBDA k : Includes(m.cache[k].tags, tenantId)))

\* MemoryCache.invalidateByTag
mcInvalidateByTag(m, tag) ==
  invalidateKeys(m, SelectSeq(m.order, LAMBDA k : Includes(m.cache[k].tags, tag)))

\* MemoryCache.invalidateByTags
mcInvalidateByTags(m, tags) ==
  invalidateKeys(m, SelectSeq(m.order, LAMBDA k : TagsMatch(m.cache[k].tags, tags)))

\* MemoryCache.delete
mcDelete(m, tenantId, key) ==
  LET fullKey == generateKey(tenantId, key)
  IN IF fullKey \in DOMAIN m.cache
     THEN LET told == notifyInvalidation(
                        [callbacks |-> m.invalidationCallbacks, calls |-> <<>>],
                        1, fullKey, m.cache[fullKey].tags)
          IN [m     |-> [withSize(mapDelete(m, fullKey)) EXCEPT
                           !.invalidationCallbacks = told.callbacks],
              ret   |-> TRUE,
              calls |-> told.calls]
     ELSE [m |-> m, ret |-> FALSE, calls |-> <<>>]

\* MemoryCache.cleanup, run by the interval timer
mcCleanup(m) ==
  LET keysToDelete == SelectSeq(m.order, LAMBDA k : Expired(m.now, m.cache[k]))
      swept == [m EXCEPT !.cache = MapDel(@, {keysToDelete[i] : i \in DOMAIN keysToDelete}),
                         !.order = SelectSeq(@, LAMBDA k : ~Expired(m.now, m.cache[k]))]
  IN [m     |-> IF Len(keysToDelete) > 0
                THEN withSize([swept EXCEPT !.stats.evictions = @ + Len(keysToDelete)])
                ELSE swept,
      ret   |-> NullValue,
      calls |-> <<>>]

\* MemoryCache.resetStats
mcResetStats(m) ==
  [m     |-> [m EXCEPT !.stats = [hits |-> 0, misses |-> 0, evictions |-> 0,
                                  size |-> Cardinality(DOMAIN m.cache)]],
   ret   |-> NullValue,
   calls |-> <<>>]

\* MemoryCache.clear
mcClear(m) ==
  [m     |-> [m EXCEPT !.cache = EmptyMap, !.order = <<>>, !.stats.size = 0],
   ret   |-> NullValue,
   calls |-> <<>>]

\* MemoryCache.shutdown: the timer is stopped, the Map is cleared and the
\* callbacks are dropped; stats is not written
mcShutdown(m) ==
  [m     |-> [m EXCEPT !.cleanupInterval = FALSE, !.cache = EmptyMap, !.order = <<>>,
                       !.invalidationCallbacks = <<>>],
   ret   |-> NullValue,
   calls |-> <<>>]

\* MemoryCache.onInvalidation
mcOnInvalidation(m, callback) ==
  [m     |-> [m EXCEPT !.invalidationCallbacks = Append(@, callback)],
   ret   |-> NullValue,
   calls |-> <<>>]

\* a call of the function onInvalidation returned
mcUnregister(m, callback) ==
  [m     |-> [m EXCEPT !.invalidationCallbacks = unregister(@, callback)],
   ret   |-> NullValue,
   calls |-> <<>>]

\* ------------------------------------------------------------------------
\* Specification of the cache: callers of two tenants making a bounded number
\* of calls while the clock advances and the interval timer fires.  mc holds
\* the cache m and history fields: ops counts the calls made, issued holds the
\* callbacks whose unregister function exists, last describes the latest
\* call and what it returned, and life tells, for each full key, who
\* stored the entry last, with what value, tags and expiry, and whether a delete or
\* an invalidation has removed it since.
\* ------------------------------------------------------------------------

MaxCacheOps == 3

MaxNow == 2

MaxCallbacks == 2

\* tenant ids and keys are strings: the second tenant id holds a colon
CacheTenants == {<<"a">>, <<"a", ":", "b">>}

CacheKeyNames == {<<"k">>, <<"b", ":", "k">>}

\* the value each tenant stores
CacheValues == [t \in CacheTenants |-> IF t = <<"a">> THEN "v1" ELSE "v2"]

CacheTtls == {1}

\* the tags option of set, and the tags invalidations are asked for
CacheTagOptions == {<<>>, <<<<"g">>>>}

CacheTags == {<<"g">>, <<"a">>}

CacheTagLists == {<<<<"g">>>>, <<<<"g">>, <<"a">>>>}

InitCache ==
  /\ mc = [m |-> NewMemoryCache, ops |-> 0, issued |-> {},
           last |-> [op |-> "none"], life |-> EmptyMap]
  /\ sim = NoResult
  /\ impacts = NoResult
  /\ NoRisk
  /\ propEdges = <<>>
  /\ propOptions = DefaultOptions
  /\ propConfig = [sourceType |-> PNodes[1].type, sourceId |-> PNodes[1].id,
                   initialImpact |-> One]
  /\ propResult = NoResult
  /\ propPc = "ready"
  /\ NoRuns
  /\ SysInit

CacheFrame ==
  /\ UNCHANGED <<propEdges, propOptions, propConfig, propResult, propPc, runs, engVisited>>
  /\ UNCHANGED <<regs, riskResults, comparison, sim, impacts>>
  /\ UNCHANGED sysVars

\* the full keys of the entries a call removed through delete or invalidation
Removed(before, after) == DOMAIN before.cache \ DOMAIN after.cache

\* a call op with arguments args took the cache to out.m; disturbs tells
\* whether its removals count as delete or invalidation
Called(op, args, out, disturbs, life) ==
  /\ mc.ops < MaxCacheOps
  /\ mc' = [mc EXCEPT
       !.m    = out.m,
       !.ops  = @ + 1,
       !.last = [op |-> op, args |-> args, ret |-> out.ret, calls |-> out.calls],
       !.life = [k \in DOMAIN life |->
                   IF disturbs /\ k \in Removed(mc.m, out.m)
                   THEN [life[k] EXCEPT !.disturbed = TRUE] ELSE life[k]]]
  /\ CacheFrame

CacheCallSet(t, k, v, ttl, tags) ==
  Called("set", [tenantId |-> t, key |-> k], mcSet(mc.m, t, k, v, ttl, tags), FALSE,
         MapSet(mc.life, generateKey(t, k),
                [owner |-> t, value |-> v, tags |-> tags,
                 expiresAt |-> mc.m.now + ttl, disturbed |-> FALSE]))

CacheCallGet(t, k) ==
  Called("get", [tenantId |-> t, key |-> k], mcGet(mc.m, t, k), FALSE, mc.life)

CacheCallHas(t, k) ==
  Called("has", [tenantId |-> t, key |-> k], mcHas(mc.m, t, k), FALSE, mc.life)

CacheCallDelete(t, k) ==
  Called("delete", [tenantId |-> t, key |-> k], mcDelete(mc.m, t, k), TRUE, mc.life)

CacheCallInvalidateTenant(t) ==
  Called("invalidateTenant", [tags |-> <<t>>], mcInvalidateTenant(mc.m, t), TRUE, mc.life)

CacheCallInvalidateByTag(tag) ==
  Called("invalidateByTag", [tags |-> <<tag>>], mcInvalidateByTag(mc.m, tag), TRUE, mc.life)

CacheCallInvalidateByTags(tags) ==
  Called("invalidateByTags", [tags |-> tags], mcInvalidateByTags(mc.m, tags), TRUE, mc.life)

\* the interval timer fires, until shutdown has cleared it
CacheCleanup ==
  /\ mc.m.cleanupInterval
  /\ Called("cleanup", <<>>, mcCleanup(mc.m), FALSE, mc.life)

CacheCallResetStats ==
  Called("resetStats", <<>>, mcResetStats(mc.m), FALSE, mc.life)

CacheCallClear ==
  Called("clear", <<>>, mcClear(mc.m), TRUE, mc.life)

CacheCallShutdown ==
  Called("shutdown", <<>>, mcShutdown(mc.m), TRUE, mc.life)

\* a caller registers a callback that is not registered yet
CacheOnInvalidation(callback) ==
  /\ Len(mc.m.invalidationCallbacks) < MaxCallbacks
  /\ callback \notin mc.issued
  /\ mc' = [mc EXCEPT !.m = mcOnInvalidation(mc.m, callback).m,
                      !.issued = @ \cup {callback},
                      !.last = [op |-> "onInvalidation"]]
  /\ CacheFrame

\* a caller calls an unregister function it holds
CacheUnregister(callback) ==
  /\ callback \in mc.issued
  /\ Called("unregister", [callback |-> callback], mcUnregister(mc.m, callback),
            FALSE, mc.life)

\* time passes
CacheTick ==
  /\ mc.m.now < MaxNow
  /\ mc' = [mc EXCEPT !.m.now = @ + 1, !.last = [op |-> "tick"]]
  /\ CacheFrame

NextCache ==
  \/ \E t \in CacheTenants, k \in CacheKeyNames, ttl \in CacheTtls,
        tags \in CacheTagOptions : CacheCallSet(t, k, CacheValues[t], ttl, tags)
  \/ \E t \in CacheTenants, k \in CacheKeyNames : CacheCallGet(t, k)
  \/ \E t \in CacheTenants, k \in CacheKeyNames : CacheCallHas(t, k)
  \/ \E t \in CacheTenants, k \in CacheKeyNames : CacheCallDelete(t, k)
  \/ \E t \in CacheTenants : CacheCallInvalidateTenant(t)
  \/ \E tag \in CacheTags : CacheCallInvalidateByTag(tag)
  \/ \E tags \in CacheTagLists : CacheCallInvalidateByTags(tags)
  \/ CacheCleanup
  \/ CacheCallResetStats
  \/ CacheCallClear
  \/ CacheCallShutdown
  \/ \E callback \in CallbackKinds : CacheOnInvalidation(callback)
  \/ \E callback \in CallbackKinds : CacheUnregister(callback)
  \/ CacheTick

SpecCache == InitCache /\ [][NextCache]_vars

\* ------------------------------------------------------------------------
\* POST regulations/[id]/propagate and the RegulationImpact rows
\* (specification SpecImpact)
\*
\* impacts.rows is the regulationImpact table in insertion order and
\* impacts.run the two requests in flight.  A request is interleaved with
\* the other one at its store calls: the regulation lookup with the first
\* audit row, the graph load of engine.propagate, deleteMany, and createMany
\* with the invalidations and the closing audit row.  The edge rows can
\* change between two requests through DELETE edges/[id].
\* ------------------------------------------------------------------------

MaxEdgeDeletes == 1

ImpactRunIds == {1, 2}

ImpactTenant == "tA"

\* the edges the store may hold at the start, by their endpoints
ImpactPairs == {<<1, 2>>, <<2, 3>>, <<2, 6>>, <<6, 7>>}

ImpactWeights == [p \in ImpactPairs |-> IF p = <<2, 3>> THEN <<1, 2>> ELSE One]

\* request inputs: the regulation, and maxDepth of the body (10 when absent)
ImpactRegulationIds == {"r1", "r9"}

ImpactMaxDepths == {2, DefaultMaxDepth}

ImpactSeverities == {"Critical", "Medium"}

IdleImpactRun ==
  [pc |-> "idle", id |-> "", maxDepth |-> 0, severity |-> "", nodes |-> EmptyMap,
   records |-> <<>>, resp |-> NoResp]

InitImpact ==
  /\ \E ps \in SUBSET ImpactPairs :
        dbEdges = RiskEdgeRows(ps, [p \in ps |-> ImpactWeights[p]])
  /\ \E severity \in ImpactSeverities :
        regs = <<RegulationRow(1, severity, "Active", 1)>>
  /\ impacts = [rows |-> <<>>, run |-> [i \in ImpactRunIds |-> IdleImpactRun],
                deletes |-> 0]
  /\ cache = EmptyMap
  /\ dbEntities = [t \in Tenants |-> [e \in ModelEntityTypes |-> 1]]
  /\ procs = [p \in Procs |-> IdleProc]
  /\ commits = [t \in Tenants |-> 0]
  /\ acked = [t \in Tenants |-> 0]
  /\ started = 0
  /\ riskResults = NoResult
  /\ comparison = NoResult
  /\ sim = NoResult
  /\ mc = NoResult
  /\ propEdges = <<>>
  /\ propOptions = DefaultOptions
  /\ propConfig = [sourceType |-> PNodes[1].type, sourceId |-> PNodes[1].id,
                   initialImpact |-> One]
  /\ propResult = NoResult
  /\ propPc = "ready"
  /\ NoRuns

ImpactFrame ==
  /\ UNCHANGED <<propEdges, propOptions, propConfig, propResult, propPc, runs, engVisited>>
  /\ UNCHANGED <<regs, riskResults, comparison, sim, mc>>
  /\ UNCHANGED <<dbEntities, procs, commits, acked, started>>

\* db.regulation.findFirst({ where: { id, tenantId, isActive: true } })
findActiveRegulation(rows, id) == SelectSeq(rows, LAMBDA r : r.id = id /\ r.isActive)

\* POST: the regulation lookup, 404 when there is none, else the first audit row
ImpactPost(i, id, maxDepth) ==
  /\ impacts.run[i].pc = "idle"
  /\ LET found == findActiveRegulation(regs, id)
     IN impacts' = [impacts EXCEPT !.run[i] =
          IF found = <<>>
          THEN [@ EXCEPT !.pc = "done", !.id = id, !.resp = [status |-> 404]]
          ELSE [@ EXCEPT !.pc = "propagate", !.id = id, !.maxDepth = maxDepth,
                         !.severity = found[1].severity]]
  /\ UNCHANGED <<cache, dbEdges>>
  /\ ImpactFrame

\* key.startsWith("REGULATION:")
StartsWithRegulation(key) == key[1] = "REGULATION" /\ key[2] = ":"

\* the loop over result.nodes that fills impactRecords, in the Map's order
RECURSIVE impactRecords(_, _, _)
impactRecords(result, id, k) ==
  IF k > Len(result.order) THEN <<>>
  ELSE LET key  == result.order[k]
           node == result.nodes[key]
           rest == impactRecords(result, id, k + 1)
       IN IF StartsWithRegulation(key) THEN rest
          ELSE <<[regulationId |-> id, targetType |-> key[1], targetId |-> key[3],
                  impactScore |-> node.impactScore,
                  impactLevel |-> getRiskLevel(node.impactScore),
                  impactPath |-> node.path]>> \o rest

\* engine.propagate: buildDependencyGraph takes the cached graph or reads the
\* active edges and caches them; then the traversal and impactRecords
ImpactPropagate(i) ==
  /\ impacts.run[i].pc = "propagate"
  /\ LET r      == impacts.run[i]
         hit    == CacheHas(cache, ImpactTenant, CacheKeyDependencyGraph(ImpactTenant))
         edges  == IF hit
                   THEN CacheGet(cache, ImpactTenant,
                                 CacheKeyDependencyGraph(ImpactTenant)).data.allEdges
                   ELSE ActiveEdges(dbEdges, ImpactTenant)
         result == CHOOSE x \in
                     {propagate(NewEngine(edges, EntityNames(ImpactTenant),
                                          [maxDepth |-> r.maxDepth,
                                           impactThreshold |-> DefaultOptions.impactThreshold,
                                           includeIndirect |-> TRUE]),
                                [sourceType |-> "REGULATION", sourceId |-> r.id,
                                 initialImpact |-> getInitialImpactFromSeverity(r.severity)])} :
                     TRUE
     IN /\ cache' = IF hit THEN cache
                    ELSE CacheSet(cache, ImpactTenant, CacheKeyDependencyGraph(ImpactTenant),
                                  BuildAdjacency(edges), GraphTtlMinutes,
                                  <<TagDependencyGraph, TagTenant(ImpactTenant)>>, 0)
        /\ impacts' = [impacts EXCEPT !.run[i] =
             [@ EXCEPT !.pc = "deleteMany", !.nodes = result.nodes,
                       !.records = impactRecords(result, r.id, 1)]]
  /\ UNCHANGED dbEdges
  /\ ImpactFrame

\* the three cache.invalidateByTag calls after the rows are stored
invalidateAfterPropagation(c) ==
  invalidateByTag(invalidateByTag(invalidateByTag(c, TagDependencyGraph),
                                  TagImpactAnalysis), TagRiskScores)

\* db.regulationImpact.deleteMany({ where: { regulationId: id } }); with no
\* records the request goes on to the invalidations and its answer
ImpactDeleteMany(i) ==
  /\ impacts.run[i].pc = "deleteMany"
  /\ LET r == impacts.run[i]
         kept == SelectSeq(impacts.rows, LAMBDA row : row.regulationId # r.id)
     IN IF Len(r.records) > 0
        THEN /\ impacts' = [impacts EXCEPT !.rows = kept, !.run[i].pc = "createMany"]
             /\ UNCHANGED cache
        ELSE /\ impacts' = [impacts EXCEPT !.rows = kept, !.run[i].pc = "done",
                                           !.run[i].resp = [status |-> 200]]
             /\ cache' = invalidateAfterPropagation(cache)
  /\ UNCHANGED dbEdges
  /\ ImpactFrame

\* db.regulationImpact.createMany({ data: impactRecords }), the
\* invalidations, the closing audit row and the answer
ImpactCreateMany(i) ==
  /\ impacts.run[i].pc = "createMany"
  /\ impacts' = [impacts EXCEPT !.rows = @ \o impacts.run[i].records,
                                !.run[i].pc = "done",
                                !.run[i].resp = [status |-> 200]]
  /\ cache' = invalidateAfterPropagation(cache)
  /\ UNCHANGED dbEdges
  /\ ImpactFrame

\* DELETE edges/[id] as a whole: the row is deactivated and the graph cache
\* invalidated
ImpactEdgeDelete(e) ==
  /\ impacts.deletes < MaxEdgeDeletes
  /\ e \in DOMAIN dbEdges
  /\ dbEdges[e].isActive
  /\ dbEdges' = [dbEdges EXCEPT ![e].isActive = FALSE]
  /\ cache' = invalidateByTag(cache, TagDependencyGraph)
  /\ impacts' = [impacts EXCEPT !.deletes = @ + 1]
  /\ ImpactFrame

NextImpact ==
  \/ \E i \in ImpactRunIds, id \in ImpactRegulationIds, maxDepth \in ImpactMaxDepths :
        ImpactPost(i, id, maxDepth)
  \/ \E i \in ImpactRunIds : ImpactPropagate(i)
  \/ \E i \in ImpactRunIds : ImpactDeleteMany(i)
  \/ \E i \in ImpactRunIds : ImpactCreateMany(i)
  \/ \E e \in 1..Cardinality(ImpactPairs) : ImpactEdgeDelete(e)

SpecImpact == InitImpact /\ [][NextImpact]_vars

\* ------------------------------------------------------------------------
\* Specification SpecConfig: one propagateImpact(config) call, as the POST
\* propagation route makes it, on a bounded family of graphs.  The source is
\* the regulation r1, which has an entity row, or the budget b1, whose id
\* matches no entity row; the name lookups of the call answer or fail.
\* ------------------------------------------------------------------------

ConfigPairs == {<<1, 2>>, <<2, 3>>, <<3, 4>>}

ConfigSources == {1, 3}

ConfigMaxDepths == {1, DefaultMaxDepth}

ConfigThresholds == {<<1, 100>>, <<7, 10>>}

InitConfig ==
  /\ \E ps \in SUBSET ConfigPairs :
        \E attr \in [ps -> EdgeAttrs] : propEdges = EdgeRows(ps, attr)
  /\ \E src \in ConfigSources :
        propConfig \in [sourceType : {PNodes[src].type}, sourceId : {PNodes[src].id},
                        initialImpact : {One}, maxDepth : ConfigMaxDepths,
                        impactThreshold : ConfigThresholds, includeIndirect : BOOLEAN]
  /\ propOptions = DefaultOptions
  /\ propResult = NoResult
  /\ propPc = "ready"
  /\ NoRuns
  /\ NoRisk
  /\ NoAux
  /\ SysInit

\* result = await propagateImpact(config); getEntityInfo returns null for
\* every lookup when the store raises
PropagateImpactCall(lookupOk) ==
  /\ propPc = "ready"
  /\ propResult' =
       [result |-> propagateImpact(BuildAdjacency(propEdges),
                                   IF lookupOk THEN PNames ELSE EmptyMap, propConfig),
        lookupOk |-> lookupOk]
  /\ propPc' = "done"
  /\ UNCHANGED <<propEdges, propOptions, propConfig, runs, engVisited, riskVars, auxVars>>
  /\ UNCHANGED sysVars

NextConfig == \E lookupOk \in BOOLEAN : PropagateImpactCall(lookupOk)

SpecConfig == InitConfig /\ [][NextConfig]_vars

\* ------------------------------------------------------------------------
\* Properties of propagateImpact (specification SpecConfig)
\* ------------------------------------------------------------------------

ConfigSourceKey == NodeKey(propConfig.sourceType, propConfig.sourceId)

NoOutgoingEdges ==
  \A i \in DOMAIN propEdges : SourceKeyOf(propEdges[i]) # ConfigSourceKey

MatchesNoEntity ==
  ~EntityExists("tA", propConfig.sourceType, propConfig.sourceId)

\* the result holds the source alone: depth 0, score initialImpact, the name
\* of the entity row or else the id, no edges, nothing affected
SourceOnly ==
  /\ DOMAIN propResult.result.nodes = {ConfigSourceKey}
  /\ propResult.result.nodes[ConfigSourceKey] =
       [id |-> propConfig.sourceId, type |-> propConfig.sourceType,
        name |-> IF propResult.lookupOk /\ ~MatchesNoEntity
                 THEN PNames[ConfigSourceKey] ELSE propConfig.sourceId,
        impactScore |-> propConfig.initialImpact, depth |-> 0, path |-> <<>>]
  /\ propResult.result.edges = <<>>
  /\ propResult.result.totalAffected = 0
  /\ propResult.result.maxDepth = 0

\* C32: propagate from a source that has no outgoing edges, or whose id
\* matches no entity, returns the source alone at depth 0 with score
\* initialImpact and its name or id, no edges, totalAffected 0 and maxDepth 0.
C32_SourceOnlyResult ==
  (propPc = "done" /\ (NoOutgoingEdges \/ MatchesNoEntity)) => SourceOnly

\* C33: a propagation started through propagateImpact(config) honours the
\* options of its config: no node deeper than config.maxDepth, no node other
\* than the source with an impact below config.impactThreshold, and no
\* Indirect edge traversed when config.includeIndirect is false.
C33_ConfigOptionsHonoured ==
  propPc = "done" =>
    /\ \A k \in DOMAIN propResult.result.nodes :
          /\ propResult.result.nodes[k].depth <= propConfig.maxDepth
          /\ k # ConfigSourceKey =>
               ~RLess(propResult.result.nodes[k].impactScore, propConfig.impactThreshold)
    /\ ~propConfig.includeIndirect =>
          \A i \in DOMAIN propResult.result.edges :
             propResult.result.edges[i].impactType # "Indirect"

\* ------------------------------------------------------------------------
\* Properties of the cache (specification SpecCache)
\* ------------------------------------------------------------------------

\* the latest call was a call of op, and this step made it
JustCalled(op) == mc'.ops = mc.ops + 1 /\ mc'.last.op = op

LastFullKey == generateKey(mc'.last.args.tenantId, mc'.last.args.key)

\* the entry stored last under a full key has been neither deleted nor
\* invalidated since (no clear is ever made)
Undisturbed(fullKey) == fullKey \in DOMAIN mc.life /\ ~mc.life[fullKey].disturbed

\* C23: get after set, with no delete or invalidation between them, returns
\* the stored value while the TTL has not elapsed; once it has elapsed every
\* get returns absent, and the evictions counter goes up by exactly one for
\* the entry in total: by one in the get or the sweep that drops the entry,
\* and not at all in a later get.
C23_CacheRoundTrip ==
  [][/\ (JustCalled("get") /\ Undisturbed(LastFullKey)) =>
          LET life == mc.life[LastFullKey]
          IN /\ mc.m.now < life.expiresAt => mc'.last.ret = life.value
             /\ mc.m.now > life.expiresAt =>
                  /\ mc'.last.ret = NullValue
                  /\ LastFullKey \notin DOMAIN mc'.m.cache
                  /\ mc'.m.stats.evictions - mc.m.stats.evictions =
                       IF LastFullKey \in DOMAIN mc.m.cache THEN 1 ELSE 0
     /\ JustCalled("cleanup") =>
          LET expired == {k \in DOMAIN mc.m.cache : mc.m.now > mc.m.cache[k].expiresAt}
          IN /\ DOMAIN mc'.m.cache = DOMAIN mc.m.cache \ expired
             /\ mc'.m.stats.evictions - mc.m.stats.evictions = Cardinality(expired)
    ]_vars

\* an expired entry was dropped and counted by a get, and a later get of the
\* same key returned absent
C23_Witness ==
  /\ mc.last.op = "get"
  /\ mc.last.ret = NullValue
  /\ mc.m.stats.evictions = 1
  /\ mc.m.stats.misses = 2
  /\ Undisturbed(generateKey(mc.last.args.tenantId, mc.last.args.key))

\* the entry under the full key of the latest call was stored by another
\* tenant than the one calling
StoredByAnother ==
  /\ LastFullKey \in DOMAIN mc.m.cache
  /\ mc.life[LastFullKey].owner # mc'.last.args.tenantId

\* C24: an entry stored by tenant A is never returned by a get of another
\* tenant B, never reported by a has of B and never removed by a delete of
\* B, whatever the keys.
C24_TenantIsolation ==
  [][/\ (JustCalled("get") /\ StoredByAnother) => mc'.last.ret = NullValue
     /\ (JustCalled("has") /\ StoredByAnother) => mc'.last.ret = FALSE
     /\ (JustCalled("delete") /\ StoredByAnother) => LastFullKey \in DOMAIN mc'.m.cache
    ]_vars

InvalidationOps == {"invalidateTenant", "invalidateByTag", "invalidateByTags"}

\* the effective tag set of the entry under a full key: the tenant that
\* stored it and the tags given at set
EffectiveTags(fullKey) ==
  {mc.life[fullKey].owner} \cup {mc.life[fullKey].tags[i] : i \in DOMAIN mc.life[fullKey].tags}

\* the entries carrying at least one of the tags the latest call was given
Tagged ==
  {k \in DOMAIN mc.m.cache :
     \E i \in DOMAIN mc'.last.args.tags : mc'.last.args.tags[i] \in EffectiveTags(k)}

\* C25: invalidateTenant, invalidateByTag and invalidateByTags remove exactly
\* the entries whose effective tag set holds one of the given tags, return
\* how many they removed and leave every other entry as it was.
C25_InvalidateExactlyTagged ==
  [][(\E op \in InvalidationOps : JustCalled(op)) =>
        /\ DOMAIN mc'.m.cache = DOMAIN mc.m.cache \ Tagged
        /\ \A k \in DOMAIN mc'.m.cache : mc'.m.cache[k] = mc.m.cache[k]
        /\ mc'.last.ret = Cardinality(Tagged)
    ]_vars

\* an invalidation by tags removed one entry and left another one in place
C25_Witness ==
  /\ mc.last.op = "invalidateByTags"
  /\ mc.last.ret = 1
  /\ Cardinality(DOMAIN mc.m.cache) = 1

RemovalOps == {"delete"} \cup InvalidationOps

\* how often the latest call called callback with the full key and the tag
\* set of the entry under fullKey
TimesCalled(callback, fullKey) ==
  Cardinality({j \in DOMAIN mc'.last.calls :
                 /\ mc'.last.calls[j].callback = callback
                 /\ mc'.last.calls[j].key = fullKey
                 /\ {mc'.last.calls[j].tags[i] : i \in DOMAIN mc'.last.calls[j].tags}
                      = EffectiveTags(fullKey)})

Registered(m) == {m.invalidationCallbacks[i] : i \in DOMAIN m.invalidationCallbacks}

\* C26: a delete or an invalidation calls every registered callback exactly
\* once for every entry it removes, with the entry's full key and tag set,
\* whether or not callbacks throw (a callback that unregisters itself in the
\* middle of the call is held to at most once; every callback still registered
\* after the call is held to exactly once); the call removes the entries all
\* the same; and a callback whose unregister function has been called is
\* registered no more, so that no later invalidation calls it.
C26_CallbacksPerRemovedEntry ==
  [][/\ (\E op \in RemovalOps : JustCalled(op)) =>
          /\ \A k \in Removed(mc.m, mc'.m) : \A callback \in Registered(mc.m) :
                /\ TimesCalled(callback, k) <= 1
                /\ callback \in Registered(mc'.m) => TimesCalled(callback, k) = 1
          /\ \A j \in DOMAIN mc'.last.calls :
                mc'.last.calls[j].callback \in Registered(mc.m)
     /\ (\E op \in InvalidationOps : JustCalled(op)) =>
          Removed(mc.m, mc'.m) = Tagged
     /\ (JustCalled("delete") /\ LastFullKey \in DOMAIN mc.m.cache) =>
          Removed(mc.m, mc'.m) = {LastFullKey}
     /\ JustCalled("unregister") =>
          mc'.last.args.callback \notin Registered(mc'.m)
    ]_vars

\* MemoryCache.getStats: a copy of the stats object
getStats(m) == m.stats

\* C36: after every cache operation (set, get, has, delete, the three
\* invalidations, the background sweep, clear, resetStats, shutdown) the
\* size reported by getStats is the number of entries the cache holds.
C36_StatsSizeIsEntryCount ==
  getStats(mc.m).size = Cardinality(DOMAIN mc.m.cache)

\* the latest removal ran a callback that unregistered itself from inside
\* its notification
UnregisteredInsideNotification ==
  /\ \E op \in RemovalOps : JustCalled(op)
  /\ \E j \in DOMAIN mc'.last.calls : mc'.last.calls[j].callback = "unregisters"

\* C37: when a callback unregisters itself from inside its own invalidation
\* notification, every other callback that was registered when the entry was
\* removed is still called exactly once for that entry.
C37_OthersStillCalledOnce ==
  [][UnregisteredInsideNotification =>
        \A k \in Removed(mc.m, mc'.m) :
           \A callback \in Registered(mc.m) \ {"unregisters"} :
              TimesCalled(callback, k) = 1
    ]_vars

\* ------------------------------------------------------------------------
\* Properties of the graph build under a failing store (specification Spec)
\* ------------------------------------------------------------------------

\* process p has just been answered with the failure of its graph load
LoadJustFailed(p) ==
  procs[p].pc = "readEdges" /\ procs'[p].resp = GraphLoadFailed

\* process p has just started a propagation that finds neither its result
\* nor the tenant's graph in the cache
StartedOnMiss(p) ==
  /\ procs[p].pc \in {"idle", "done"}
  /\ procs'[p].op = "propagation"
  /\ procs'[p].pc # "done"
  /\ ~CacheHas(cache, procs'[p].tenantId, CacheKeyDependencyGraph(procs'[p].tenantId))

\* C27: when loading the active edges fails, the request ends with the
\* failure as its answer and the failing call writes nothing to the cache;
\* a later propagation that finds no graph in the cache reads the store.
C27_FailedLoadNotCached ==
  [][\A p \in Procs :
       /\ LoadJustFailed(p) => (procs'[p].pc = "done" /\ cache' = cache)
       /\ StartedOnMiss(p) => procs'[p].pc = "readEdges"
    ]_vars

\* a graph load has failed and left no graph in the cache, and another
\* propagation of the same tenant has read the store
C27_Witness ==
  \E p, q \in Procs :
     /\ procs[p].resp = GraphLoadFailed /\ procs[p].pc = "done"
     /\ procs[q].op = "propagation" /\ procs[q].pc = "cacheGraph"
     /\ procs[q].tenantId = procs[p].tenantId
     /\ ~CacheHas(cache, procs[p].tenantId, CacheKeyDependencyGraph(procs[p].tenantId))

\* ------------------------------------------------------------------------
\* Properties of the edge rows (specification Spec)
\* ------------------------------------------------------------------------

\* C30: at most one active edge exists for any (tenant, source, target),
\* whatever create, update and delete requests have run and however they
\* interleaved.
C30_OneActiveEdgePerPair ==
  \A i, j \in DOMAIN dbEdges :
     (dbEdges[i].isActive /\ dbEdges[j].isActive /\ SameEndpoints(dbEdges[i], dbEdges[j]))
       => i = j

\* of two create requests for the same pair that both passed the duplicate
\* check, one has inserted its row and the store has rejected the other
C30_Witness ==
  \E p \in Procs :
     /\ procs[p].resp = EdgeCreateFailed
     /\ Cardinality({i \in DOMAIN dbEdges :
                       /\ dbEdges[i].isActive
                       /\ SameEndpoints(dbEdges[i],
                                        EdgeRow(0, procs[p].tenantId, procs[p].arg.pair,
                                                One, "Direct"))}) = 1

\* ------------------------------------------------------------------------
\* Properties of the RegulationImpact rows (specification SpecImpact)
\* ------------------------------------------------------------------------

\* the stored rows of a regulation
ImpactRows(rows, id) == SelectSeq(rows, LAMBDA row : row.regulationId = id)

Quiescent == \A i \in ImpactRunIds : impacts.run[i].pc \in {"idle", "done"}

\* run i has stored its rows for regulation id
Stored(i, id) == impacts.run[i].id = id /\ impacts.run[i].resp.status = 200

\* C28: once the propagation runs of a regulation have ended, overlapping or
\* not, its stored rows are the rows of one single run: never the union of
\* the rows of two runs, never the rows of a run twice.
C28_RowsOfOneRun ==
  \A id \in ImpactRegulationIds :
     (Quiescent /\ \E i \in ImpactRunIds : Stored(i, id))
       => \E i \in ImpactRunIds :
             Stored(i, id) /\ ImpactRows(impacts.rows, id) = impacts.run[i].records

\* run i has just completed, and no other request has been made
CompletedAlone(i) ==
  /\ impacts.run[i].pc # "done"
  /\ impacts'.run[i].pc = "done"
  /\ impacts'.run[i].resp.status = 200
  /\ \A j \in ImpactRunIds \ {i} : impacts.run[j].pc = "idle"

\* the rows of run i's regulation for the node under key
RowsFor(i, key) ==
  {k \in DOMAIN impacts'.rows :
     /\ impacts'.rows[k].regulationId = impacts'.run[i].id
     /\ impacts'.rows[k].targetType = key[1]
     /\ impacts'.rows[k].targetId = key[3]}

\* C29: when a propagation run for regulation r completes, there is exactly
\* one row for every node of the result other than the source r (nodes of
\* type REGULATION other than r included) with the node's score, the level
\* of that score and the node's path, and no row for r itself.
C29_RowPerResultNode ==
  [][\A i \in ImpactRunIds :
       CompletedAlone(i) =>
         LET nodes == impacts'.run[i].nodes
             sourceKey == NodeKey("REGULATION", impacts'.run[i].id)
         IN /\ \A key \in DOMAIN nodes \ {sourceKey} :
                 /\ Cardinality(RowsFor(i, key)) = 1
                 /\ \A k \in RowsFor(i, key) :
                      /\ impacts'.rows[k].impactScore = nodes[key].impactScore
                      /\ impacts'.rows[k].impactLevel = impactToRiskLevel(nodes[key].impactScore)
                      /\ impacts'.rows[k].impactPath = nodes[key].path
            /\ RowsFor(i, sourceKey) = {}
            /\ Len(ImpactRows(impacts'.rows, impacts'.run[i].id)) =
                 Cardinality(DOMAIN nodes) - 1
    ]_vars

\* ------------------------------------------------------------------------
\* Further properties of the edge routes (specification Spec)
\* ------------------------------------------------------------------------

\* C31: every edge row the create route has stored connects two existing
\* entities of the edge's own tenant.
C31_EdgesNameTenantEntities ==
  \A i \in DOMAIN dbEdges :
     /\ EntityExists(dbEdges[i].tenantId, dbEdges[i].sourceType, dbEdges[i].sourceId)
     /\ EntityExists(dbEdges[i].tenantId, dbEdges[i].targetType, dbEdges[i].targetId)

\* C39: a mutation handler that has committed its write has invalidated the
\* dependency graph when it returns, whatever it answers: at the step in which
\* it returns, with success or with the error of a failed audit-log write,
\* no graph of its tenant is left in the cache.
C39_InvalidatedOnFailureToo ==
  [][\A p \in Procs :
       (/\ procs[p].pc = "audit"
        /\ procs[p].op \in MutationOps
        /\ procs'[p].pc = "done")
       => ~CacheHas(cache', procs[p].tenantId, CacheKeyDependencyGraph(procs[p].tenantId))]_vars

\* the row a create request of tenant t for pair would insert
RequestedRow(pr) == EdgeRow(0, pr.tenantId, pr.arg.pair, One, "Direct")

\* some edge between the endpoints of row has been deleted
DeletedPair(rows, row) ==
  \E i \in DOMAIN rows : ~rows[i].isActive /\ SameEndpoints(rows[i], row)

\* C40: a deleted edge stays inactive, no edge between its endpoints is
\* active afterwards, and a create request that arrives for a deleted pair
\* is rejected as a duplicate.
C40_DeletedPairStaysInactive ==
  [][/\ \A i \in DOMAIN dbEdges :
          ~dbEdges[i].isActive =>
             \A j \in DOMAIN dbEdges' :
                SameEndpoints(dbEdges'[j], dbEdges[i]) => ~dbEdges'[j].isActive
     /\ \A p \in Procs :
          (/\ procs[p].pc \in {"idle", "done"}
           /\ procs'[p] # procs[p]
           /\ procs'[p].op = "edgePost"
           /\ DeletedPair(dbEdges, RequestedRow(procs'[p])))
          => procs'[p].resp = [status |-> 400]
    ]_vars

\* an edge was deleted, the deletion answered, and a create request that
\* arrived afterwards for the same pair was rejected
C40_Witness ==
  \E p \in Procs :
     /\ procs[p].op = "edgePost"
     /\ procs[p].resp = [status |-> 400]
     /\ procs[p].ack0 = 1
     /\ commits[procs[p].tenantId] = 1
     /\ DeletedPair(dbEdges, RequestedRow(procs[p]))

\* ------------------------------------------------------------------------
\* Properties of the graphs buildDependencyGraph returns (specification Spec)
\* ------------------------------------------------------------------------

\* how many entries of the list seq are the edge row with this id
Occurrences(seq, id) == Cardinality({k \in DOMAIN seq : seq[k].id = id})

\* rows holds each edge of tenant t that is active in the table once, as it
\* is in the table, and nothing else
ExactlyActive(rows, table, t) ==
  /\ \A i \in DOMAIN table :
        Occurrences(rows, table[i].id) =
          IF table[i].tenantId = t /\ table[i].isActive THEN 1 ELSE 0
  /\ \A k \in DOMAIN rows : \E i \in DOMAIN table : rows[k] = table[i]

\* every edge of allEdges is an active edge of tenant t and lies once in the
\* outgoing bucket of its source key and once in the incoming bucket of its
\* target key, keys being type:id; the buckets hold nothing else
WellBucketed(graph, t) ==
  /\ \A k \in DOMAIN graph.allEdges :
        LET e == graph.allEdges[k]
            sourceKey == NodeKey(e.sourceType, e.sourceId)
            targetKey == NodeKey(e.targetType, e.targetId)
        IN /\ e.tenantId = t /\ e.isActive
           /\ Occurrences(graph.allEdges, e.id) = 1
           /\ sourceKey \in DOMAIN graph.outgoing
           /\ Occurrences(graph.outgoing[sourceKey], e.id) = 1
           /\ targetKey \in DOMAIN graph.incoming
           /\ Occurrences(graph.incoming[targetKey], e.id) = 1
  /\ \A key \in DOMAIN graph.outgoing : \A k \in DOMAIN graph.outgoing[key] :
        /\ NodeKey(graph.outgoing[key][k].sourceType, graph.outgoing[key][k].sourceId) = key
        /\ Occurrences(graph.allEdges, graph.outgoing[key][k].id) = 1
  /\ \A key \in DOMAIN graph.incoming : \A k \in DOMAIN graph.incoming[key] :
        /\ NodeKey(graph.incoming[key][k].targetType, graph.incoming[key][k].targetId) = key
        /\ Occurrences(graph.allEdges, graph.incoming[key][k].id) = 1

\* C34: the rows buildDependencyGraph reads are exactly the edges of its
\* tenant that are active in the store at that moment, the graph it builds
\* holds exactly those rows, and every graph it returns, built or taken from
\* the cache, holds each of its edges once in allEdges, once under its source
\* key and once under its target key, and no inactive edge and no edge of
\* another tenant.
C34_GraphHoldsActiveEdges ==
  [][\A p \in Procs :
       /\ (procs[p].pc = "readEdges" /\ procs'[p].pc = "cacheGraph")
            => ExactlyActive(procs'[p].snap, dbEdges, procs[p].tenantId)
       /\ (procs[p].pc = "cacheGraph" /\ procs'[p].pc = "traverse")
            => procs'[p].snap.allEdges = procs[p].snap
       /\ (procs[p].pc # "traverse" /\ procs'[p].pc = "traverse")
            => WellBucketed(procs'[p].snap, procs'[p].tenantId)
    ]_vars

\* a graph with an edge in it has been returned for a tenant one of whose
\* edges is inactive, beside the edge of the other tenant
C34_Witness ==
  \E p \in Procs :
     /\ procs[p].op = "propagation" /\ procs[p].pc = "traverse"
     /\ procs[p].snap.allEdges # <<>>
     /\ \E i \in DOMAIN dbEdges :
           dbEdges[i].tenantId = procs[p].tenantId /\ ~dbEdges[i].isActive
     /\ \E i \in DOMAIN dbEdges : dbEdges[i].tenantId # procs[p].tenantId

\* ------------------------------------------------------------------------
\* Properties of the department ranking (specification SpecRisk)
\* ------------------------------------------------------------------------

\* a step that leaves the regulation rows alone and produces a ranking
RankingMade ==
  regs' = regs /\ riskResults' # riskResults /\ "ranking" \in DOMAIN riskResults'

DepartmentEntries(results) ==
  {k \in DOMAIN results : results[k].entityType = "DEPARTMENT"}

\* C35: the ranking holds exactly the DEPARTMENT entries of calculateAllRisks,
\* sorted by risk score descending, each with the risk score and the risk
\* level of its entry.
C35_RankingMatchesEntries ==
  [][RankingMade =>
       LET results == riskResults'.results
           ranking == riskResults'.ranking
       IN /\ Len(ranking) = Cardinality(DepartmentEntries(results))
          /\ \A j \in DepartmentEntries(results) :
                Cardinality({k \in DOMAIN ranking :
                               ranking[k].departmentId = results[j].entityId}) = 1
          /\ \A k \in DOMAIN ranking :
                \E j \in DepartmentEntries(results) :
                   /\ ranking[k].departmentId = results[j].entityId
                   /\ ranking[k].riskScore = results[j].adjustedRiskScore
                   /\ ranking[k].riskLevel = results[j].riskLevel
          /\ \A k \in 1..(Len(ranking) - 1) :
                ~RLess(ranking[k].riskScore, ranking[k + 1].riskScore)
    ]_vars

====
